---- MODULE Spec2Model ----
(***************************************************************************)
(* Model of the open-data reconciliation core of src/main.py: the quick    *)
(* lookup cache, the yearly archive downloaders and their caches, the FII  *)
(* resolver (descobrir_dados_fii), the FNET document search (buscar_fnet)  *)
(* the two timeline builders, the merge and post-processing of one         *)
(* period's snapshot, the summary variation, the range-based operations    *)
(* with their parallel downloads, the row filter _filtrar_por_cnpj, the   *)
(* class tax IDs (_descobrir_cnpj_classe), the column normalizers, the     *)
(* monthly and quarterly report queries, listar_documentos and the         *)
(* offerings downloader.                                                   *)
(*                                                                         *)
(* Python values are modelled as follows: a dict is a function whose       *)
(* DOMAIN is the dict's keys, a list is a sequence, None is the string     *)
(* "None", a str that the code slices or compares is a sequence of         *)
(* character codes, time.time() is the integer variable now (seconds).     *)
(***************************************************************************)
EXTENDS Integers, Sequences, FiniteSets, TLC

VARIABLES
    now,                    \* time.time()
    ticks,                  \* number of clock advances so far (bounded)
    _cache,                 \* main.py:134
    lastSet,                \* history: key -> the most recent cache_set
    cacheOp,                \* history: the last cache_get / cache_set call
    CVM_CSV_CACHE,          \* main.py:1133
    CVM_TRIM_CACHE,         \* main.py:1430
    CVM_TRIMESTRAL_CACHE,   \* main.py:3752
    CVM_ANUAL_CACHE,        \* main.py:3753
    okAt,                   \* history: (kind, ano) -> time of the last parsed download
    fetchLog,               \* history: the last archive fetch
    fnet_pc,                \* buscar_fnet: "idle", "loop" (in the for) or "done"
    fnet_args,              \* buscar_fnet: the arguments of the running call
    tentativas,             \* buscar_fnet: main.py:182
    fnet_i,                 \* buscar_fnet: index in tentativas of the next variant
    posts,                  \* history: the POSTs of the running call, with the answers
    fnet_ret,               \* buscar_fnet: the list returned
    res_pc,                 \* descobrir_dados_fii: "idle", "sites", "cvm" or "done"
    res_ticker,             \* descobrir_dados_fii: the ticker argument
    res_i,                  \* descobrir_dados_fii: index in sites of the next page
    result,                 \* descobrir_dados_fii: main.py:461
    res_calls,              \* history: the GETs of the running call (tier, found, cnpj)
    res_last,               \* history: the last completed call
    tl_op,                  \* the builder running: "evolucao", "historico" or None
    tl_pc,                  \* its position: "idle", "rows" (in the row loop) or "done"
    tl_rows,                \* history: the rows of the entity read so far, in order
    todos_snapshots,        \* cvm_evolucao_patrimonial: main.py:2902
    pontos,                 \* cvm_historico_vp: main.py:2202
    snapshots,              \* cvm_evolucao_patrimonial: selecionados (main.py:3120)
    historico,              \* cvm_historico_vp: pontos_unicos (main.py:2318)
    snap_pc,                \* one period's snapshot: "idle", "merge" or "done"
    snap_rows,              \* history: the rows of the period merged so far, in order
    composicao,             \* snap["composicao"] (main.py:2962)
    dados_gerais,           \* snap["dados_gerais"] (main.py:2963)
    sum_op,                 \* the builder whose summary was computed last, or None
    sum_in,                 \* history: the first and last book value it was given
    sum_out,                \* the variation it reported
    bld_pc,                 \* a range operation: "idle", "fetch", "read", "done", "raised"
    bld_op,                 \* the operation running
    bld_cnpj,               \* cnpj = dados_fii.get("cnpj", "")
    bld_anos,               \* anos (main.py:2905)
    futures,                \* ano -> "running" or the outcome of its download
    coletados,              \* the years as_completed has yielded
    csvs_por_ano,           \* main.py:2906
    lidos,                  \* history: the years whose rows were read
    bld_ret,                \* what the operation returned
    flt_rows,               \* _filtrar_por_cnpj: rows
    flt_args,               \* _filtrar_por_cnpj: cnpj and cnpjs_classe of the last call
    flt_ret,                \* _filtrar_por_cnpj: resultado
    als_csvs,               \* csvs_por_ano[ano] of the timeline builder: nome_csv -> rows
    als_args,               \* history: the cnpj and ticker the builder was run for
    als_classes,            \* what _descobrir_cnpj_classe gives for them (main.py:3218)
    atribuidas,             \* nome_csv -> filtrado (main.py:2944)
    nrm_row,                \* the normalizers: row.items(), in order
    nrm_out,                \* what the last run on the row returned
    nrm_ant,                \* history: what the run before it returned
    amt_periodos,           \* the periods of a timeline, in chronological order
    amt_pc,                 \* the walk over them: "idle", "walk" or "done"
    amt_i,                  \* the period the walk takes next
    acumulado,              \* the amortization accumulated so far
    amt_snaps,              \* the snapshots of the retained periods
    rep_arq,                \* ano -> what the monthly / quarterly downloader returns
    rep_parsed,             \* history: ano -> the rows as the archive was parsed
    rep_pc,                 \* a report query: "idle", "loop" or "done"
    rep_args,               \* its operation and its ano and limite parameters
    rep_anos,               \* anos_tentar (main.py:1315)
    rep_i,                  \* index in anos_tentar of the next year
    rep_log,                \* history: the years the loop fetched, in order
    rep_ret,                \* what the query returned
    lst_n,                  \* listar_documentos: number of requests so far (bounded)
    lst_req,                \* history: the last request and what its search found
    lst_ret,                \* the last response
    lst_busca,              \* history: cache key -> what the search behind the entry found
    CVM_OFERTAS_CACHE       \* main.py:1624

cacheVars   == <<_cache, lastSet, cacheOp>>
archiveVars == <<CVM_CSV_CACHE, CVM_TRIM_CACHE, CVM_TRIMESTRAL_CACHE,
                 CVM_ANUAL_CACHE, okAt, fetchLog>>
clockVars   == <<now, ticks>>
fnetVars    == <<fnet_pc, fnet_args, tentativas, fnet_i, posts, fnet_ret>>
resVars     == <<res_pc, res_ticker, res_i, result, res_calls, res_last>>
tlVars      == <<tl_op, tl_pc, tl_rows, todos_snapshots, pontos, snapshots, historico>>
snapVars    == <<snap_pc, snap_rows, composicao, dados_gerais>>
sumVars     == <<sum_op, sum_in, sum_out>>
bldVars     == <<bld_pc, bld_op, bld_cnpj, bld_anos, futures, coletados, csvs_por_ano, lidos,
                 bld_ret>>
fltVars     == <<flt_rows, flt_args, flt_ret>>
alsVars     == <<als_csvs, als_args, als_classes, atribuidas>>
nrmVars     == <<nrm_row, nrm_out, nrm_ant>>
amtVars     == <<amt_periodos, amt_pc, amt_i, acumulado, amt_snaps>>
repVars     == <<rep_arq, rep_parsed, rep_pc, rep_args, rep_anos, rep_i, rep_log, rep_ret>>
lstVars     == <<lst_n, lst_req, lst_ret, lst_busca>>
ofeVars     == <<CVM_OFERTAS_CACHE>>
newVars     == <<alsVars, nrmVars, amtVars, repVars, lstVars, ofeVars>>
extVars     == <<snapVars, sumVars, bldVars, fltVars, newVars>>
oldVars     == <<clockVars, cacheVars, archiveVars, fnetVars, resVars, tlVars, snapVars,
                 sumVars, bldVars, fltVars>>

None == "None"

(***************************************************************************)
(* Clock                                                                   *)
(***************************************************************************)
CACHE_TTL == 600
CVM_CSV_CACHE_TTL == 3600
CVM_TRIM_CACHE_TTL == 3600

MaxTicks == 2
MaxListagens == 2

\* The clock advances by 1 s or by a TTL less 1 s, so that a run reaches the
\* instants just before, on and just after a TTL boundary.

(***************************************************************************)
(* ResultCache: cache_get / cache_set                                      *)
(***************************************************************************)
CacheKeys == {"docs:HGLG11:20", "ind:HGLG11"}
CacheData == {"resultA", "resultB"}

\* the strict comparison of line 141, and its off-by-one variant
CacheFreshInclusive(ts, t) == t - ts <= CACHE_TTL
CacheFresh(ts, t) == t - ts < CACHE_TTL

DropKey(c, key) == [k \in DOMAIN c \ {key} |-> c[k]]
PutKey(c, key, entry) == [k \in DOMAIN c \cup {key} |-> IF k = key THEN entry ELSE c[k]]

\* cache_get without the del of line 143
cache_get_after_keep(c, key, t) == c
\* the dict after cache_get(key) at time t
cache_get_after(c, key, t) ==
    IF key \in DOMAIN c /\ ~CacheFresh(c[key].ts, t) THEN DropKey(c, key) ELSE c

\* the value cache_get(key) returns at time t
cache_get_ret(c, key, t) ==
    IF key \in DOMAIN c /\ CacheFresh(c[key].ts, t) THEN c[key].data ELSE None

cache_set_after(c, key, data, t) == PutKey(c, key, [ts |-> t, data |-> data])

NoSet == [set |-> FALSE, ts |-> 0, data |-> None]
NoCacheOp == [op |-> None, key |-> None, ret |-> None, at |-> 0, expired |-> FALSE]

\* cache_set(key, data)
CacheSet(key, data) ==
    /\ _cache' = cache_set_after(_cache, key, data, now)
    /\ lastSet' = [lastSet EXCEPT ![key] = [set |-> TRUE, ts |-> now, data |-> data]]
    /\ cacheOp' = [op |-> "set", key |-> key, ret |-> None, at |-> now,
                   expired |-> FALSE]
    /\ UNCHANGED <<clockVars, archiveVars, fnetVars, resVars, tlVars, extVars>>

\* cache_get(key)
CacheGet(key) ==
    /\ _cache' = cache_get_after(_cache, key, now)
    /\ cacheOp' = [op |-> "get", key |-> key, ret |-> cache_get_ret(_cache, key, now),
                   at |-> now,
                   expired |-> key \in DOMAIN _cache /\ now - _cache[key].ts >= CACHE_TTL]
    /\ UNCHANGED <<lastSet, clockVars, archiveVars, fnetVars, resVars, tlVars, extVars>>

\* the clock moves between two calls of the quick cache
TickCache ==
    /\ ticks < MaxTicks
    /\ \E d \in {1, CACHE_TTL - 1} : now' = now + d
    /\ ticks' = ticks + 1
    /\ UNCHANGED <<cacheVars, archiveVars, fnetVars, resVars, tlVars, extVars>>

(***************************************************************************)
(* StructuredArchiveIngester: the four yearly ZIP downloaders              *)
(***************************************************************************)
MinZipBytes == 100

Anos == {2024}
Kinds == {"mensal", "trimestral", "anual"}

\* names of the members of a downloaded ZIP; only the first ends in ".csv"
Entries == {"inf_fii_geral.csv", "erro"}
CsvEntries == {"inf_fii_geral.csv"}

\* nome_arq.endswith(".csv")
EndsWithCsv(nome_arq) == nome_arq \in CsvEntries

\* the member lists of the ZIPs the network serves
ZipContents ==
    {<< >>,
     [n \in {"erro"} |-> "rowsA"],
     [n \in {"inf_fii_geral.csv"} |-> "rowsA"],
     [n \in Entries |-> "rowsA"]}

\* What requests.get(url) can give: an exception, or a response with a status
\* and a body; a body has a length and is or is not a readable ZIP.
Downloads ==
    {[kind |-> "neterr", status |-> 0, size |-> 0, readable |-> FALSE, members |-> << >>],
     [kind |-> "http", status |-> 404, size |-> MinZipBytes, readable |-> FALSE,
      members |-> << >>],
     [kind |-> "http", status |-> 200, size |-> MinZipBytes, readable |-> FALSE,
      members |-> << >>],
     [kind |-> "http", status |-> 200, size |-> MinZipBytes - 1, readable |-> TRUE,
      members |-> [n \in {"inf_fii_geral.csv"} |-> "rowsA"]]}
    \cup [kind : {"http"}, status : {200}, size : {MinZipBytes},
          readable : {TRUE}, members : ZipContents]

\* resp.raise_for_status()
RaisesForStatus(status) == status >= 400 /\ status < 600

\* len(resp.content) < 100, and its off-by-one variant
TooSmallInclusive(n) == n <= MinZipBytes
TooSmall(n) == n < MinZipBytes

\* the dict built from a ZIP's members, with the ".csv" filter dropped
CsvTablesUnfiltered(members) == members
\* resultado: one key per member whose name ends in ".csv"
CsvTables(members) ==
    [n \in {m \in DOMAIN members : EndsWithCsv(m)} |-> members[n]]

\* One call of a downloader on its cache dict at time t, the network answering
\* resp: the value returned, the dict afterwards, whether the URL was fetched.
baixar_zip(cache, cache_key, ttl, resp, t) ==
    IF cache_key \in DOMAIN cache /\ t - cache[cache_key].ts < ttl
    THEN [ret |-> cache[cache_key].data, cache |-> cache, downloaded |-> FALSE]
    ELSE IF resp.kind = "neterr" \/ RaisesForStatus(resp.status)
    THEN [ret |-> [erro |-> "Erro ao baixar ZIP"], cache |-> cache, downloaded |-> TRUE]
    ELSE IF TooSmall(resp.size)
    THEN [ret |-> [erro |-> "ZIP muito pequeno"], cache |-> cache, downloaded |-> TRUE]
    ELSE IF ~resp.readable
    THEN [ret |-> [erro |-> "Erro ao processar ZIP"], cache |-> cache,
          downloaded |-> TRUE]
    ELSE LET resultado == CsvTables(resp.members)
         IN  [ret |-> resultado,
              cache |-> IF DOMAIN resultado # {}
                        THEN PutKey(cache, cache_key, [ts |-> t, data |-> resultado])
                        ELSE cache,
              downloaded |-> TRUE]

\* the download parsed as an archive (stated on the network's answer alone)
RespParses(resp) ==
    /\ resp.kind = "http"
    /\ resp.status = 200
    /\ resp.size >= MinZipBytes
    /\ resp.readable

NoFetch == [fn |-> None, kind |-> None, ano |-> 0, resp |-> None, ret |-> << >>,
            downloaded |-> FALSE, hadFresh |-> FALSE, expired |-> FALSE,
            staleTs |-> -1, key |-> None]
NeverOk == [ok |-> FALSE, ts |-> 0]

\* history kept beside a downloader call
LogFetch(fn, kind, ano, cache, cache_key, ttl, resp, r) ==
    /\ fetchLog' = [fn |-> fn, kind |-> kind, ano |-> ano, resp |-> resp, ret |-> r.ret,
                    downloaded |-> r.downloaded,
                    hadFresh |-> okAt[<<kind, ano>>].ok
                                 /\ now - okAt[<<kind, ano>>].ts < ttl,
                    expired |-> cache_key \in DOMAIN cache
                                /\ now - cache[cache_key].ts >= ttl,
                    staleTs |-> IF cache_key \in DOMAIN cache
                                THEN cache[cache_key].ts ELSE -1,
                    key |-> cache_key]
    /\ okAt' = IF r.downloaded /\ RespParses(resp)
                  /\ \E n \in DOMAIN resp.members : n \in CsvEntries
               THEN [okAt EXCEPT ![<<kind, ano>>] = [ok |-> TRUE, ts |-> now]]
               ELSE okAt

\* _baixar_csv_cvm_fii(ano)
_baixar_csv_cvm_fii(ano, resp) ==
    LET key == <<"cvm_csv", ano>>
        r == baixar_zip(CVM_CSV_CACHE, key, CVM_CSV_CACHE_TTL, resp, now)
    IN  /\ CVM_CSV_CACHE' = r.cache
        /\ LogFetch("_baixar_csv_cvm_fii", "mensal", ano, CVM_CSV_CACHE, key,
                    CVM_CSV_CACHE_TTL, resp, r)
        /\ UNCHANGED <<CVM_TRIM_CACHE, CVM_TRIMESTRAL_CACHE, CVM_ANUAL_CACHE,
                       cacheVars, clockVars, fnetVars, resVars,
                       tlVars, extVars>>

\* _baixar_csv_cvm_fii_trimestral(ano)
_baixar_csv_cvm_fii_trimestral(ano, resp) ==
    LET key == <<"cvm_trim", ano>>
        r == baixar_zip(CVM_TRIM_CACHE, key, CVM_TRIM_CACHE_TTL, resp, now)
    IN  /\ CVM_TRIM_CACHE' = r.cache
        /\ LogFetch("_baixar_csv_cvm_fii_trimestral", "trimestral", ano, CVM_TRIM_CACHE,
                    key, CVM_TRIM_CACHE_TTL, resp, r)
        /\ UNCHANGED <<CVM_CSV_CACHE, CVM_TRIMESTRAL_CACHE, CVM_ANUAL_CACHE,
                       cacheVars, clockVars, fnetVars, resVars,
                       tlVars, extVars>>

\* _baixar_csv_cvm_fii_trimestral_explore(ano)
_baixar_csv_cvm_fii_trimestral_explore(ano, resp) ==
    LET key == <<"cvm_trim_explore", ano>>
        r == baixar_zip(CVM_TRIMESTRAL_CACHE, key, CVM_CSV_CACHE_TTL, resp, now)
    IN  /\ CVM_TRIMESTRAL_CACHE' = r.cache
        /\ LogFetch("_baixar_csv_cvm_fii_trimestral_explore", "trimestral", ano,
                    CVM_TRIMESTRAL_CACHE, key, CVM_CSV_CACHE_TTL, resp, r)
        /\ UNCHANGED <<CVM_CSV_CACHE, CVM_TRIM_CACHE, CVM_ANUAL_CACHE,
                       cacheVars, clockVars, fnetVars, resVars,
                       tlVars, extVars>>

\* _baixar_csv_cvm_fii_anual(ano)
_baixar_csv_cvm_fii_anual(ano, resp) ==
    LET key == <<"cvm_anual", ano>>
        r == baixar_zip(CVM_ANUAL_CACHE, key, CVM_CSV_CACHE_TTL, resp, now)
    IN  /\ CVM_ANUAL_CACHE' = r.cache
        /\ LogFetch("_baixar_csv_cvm_fii_anual", "anual", ano, CVM_ANUAL_CACHE, key,
                    CVM_CSV_CACHE_TTL, resp, r)
        /\ UNCHANGED <<CVM_CSV_CACHE, CVM_TRIM_CACHE, CVM_TRIMESTRAL_CACHE,
                       cacheVars, clockVars, fnetVars, resVars,
                       tlVars, extVars>>

\* the clock moves between two downloader calls
TickArchive ==
    /\ ticks < MaxTicks
    /\ \E d \in {1, CVM_CSV_CACHE_TTL - 1} : now' = now + d
    /\ ticks' = ticks + 1
    /\ UNCHANGED <<cacheVars, archiveVars, fnetVars, resVars, tlVars, extVars>>

(***************************************************************************)
(* DocumentSearchStrategy: buscar_fnet                                     *)
(***************************************************************************)
MaxItems == 2

\* A str is a sequence of character codes that keeps the order of the
\* characters: "-" is -3, "." is -2, "/" is -1, a digit is its value and
\* a letter is 10 or more. None and "" are both << >>.
CnpjFormatado == <<1, 1, -2, 7, 2, 8, -1, 0, 1, -3, 4, 7>>
CnpjInputs == {<< >>, CnpjFormatado, <<1, 1, 7, 2, 8, 0, 1, 4, 7>>, <<10, -1, 11>>}
FnetTickers == {"HGLG11"}
\* max_docs: Query(ge=1, le=100) at every caller
MaxDocsInputs == {1, 20}

IsDigit(c) == c >= 0 /\ c <= 9
\* re.sub(r"\D", "", cnpj) if cnpj else ""
cnpj_limpo(cnpj) == SelectSeq(cnpj, IsDigit)

\* one entry of tentativas: its label and the payload fields that vary
Tentativa(nome, tipoFundo, cnpj, codigoNegociacao) ==
    [nome |-> nome, tipoFundo |-> tipoFundo, cnpj |-> cnpj,
     codigoNegociacao |-> codigoNegociacao]

\* the list of variants, in the order the code appends them
Tentativas(ticker, cnpj) ==
    LET limpo == cnpj_limpo(cnpj)
    IN  (IF limpo # << >>
         THEN <<Tentativa("CNPJ sem formatacao", "1", limpo, "")>> ELSE << >>)
        \o (IF cnpj # << >>
            THEN <<Tentativa("CNPJ formatado", "1", cnpj, "")>> ELSE << >>)
        \o (IF limpo # << >>
            THEN <<Tentativa("CNPJ limpo + ticker", "1", limpo, ticker)>> ELSE << >>)
        \o <<Tentativa("Ticker", "1", << >>, ticker)>>
        \o (IF limpo # << >>
            THEN <<Tentativa("CNPJ limpo sem tipo", "0", limpo, "")>> ELSE << >>)

\* What one POST can give: an exception of requests.post, or a response that
\* is ok or not, whose body is JSON or not, whose "data" holds 0..MaxItems rows
\* (a body without "data" reads as 0 rows). A row is its document id.
FnetResponses ==
    {[kind |-> "neterr", ok |-> FALSE, json |-> FALSE, data |-> << >>],
     [kind |-> "http", ok |-> FALSE, json |-> TRUE, data |-> <<901>>],
     [kind |-> "http", ok |-> TRUE, json |-> FALSE, data |-> << >>]}
    \cup {[kind |-> "http", ok |-> TRUE, json |-> TRUE,
           data |-> [j \in 1..n |-> 900 + j]] : n \in 0..MaxItems}

\* items[:max_docs], and the slice taken one short
TakeShort(items, max_docs) ==
    SubSeq(items, 1, IF max_docs - 1 < Len(items) THEN max_docs - 1 ELSE Len(items))
Take(items, max_docs) ==
    SubSeq(items, 1, IF max_docs < Len(items) THEN max_docs ELSE Len(items))

\* docs: one dict per item of items[:max_docs], tagged with the variant's label
MontarDocs(items, max_docs, nome) ==
    LET kept == Take(items, max_docs)
    IN  [j \in 1..Len(kept) |->
            [id |-> kept[j], fonte |-> "fnet", estrategia_usada |-> nome]]

\* the body of the for loop for one variant: the docs it returns, or << >>
\* when it reaches a continue (exception, not ok, not JSON, no item)
fnet_tentativa(t, resp, max_docs) ==
    IF resp.kind = "neterr" THEN << >>
    ELSE IF ~resp.ok THEN << >>
    ELSE IF ~resp.json THEN << >>
    ELSE IF resp.data = << >> THEN << >>
    ELSE MontarDocs(resp.data, max_docs, t.nome)

\* the loop aborted by an exception instead of continuing
ProximaAbortaEmExcecao(i, n, resp) == IF resp.kind = "neterr" THEN n + 1 ELSE i + 1
\* continue: the index of the variant tried after variant i of n
Proxima(i, n, resp) == i + 1

\* buscar_fnet(ticker, cnpj, max_docs=...) up to the for loop
BuscarFnetStart(ticker, cnpj, max_docs) ==
    /\ fnet_pc \in {"idle", "done"}
    /\ fnet_pc' = "loop"
    /\ fnet_args' = [ticker |-> ticker, cnpj |-> cnpj, max_docs |-> max_docs]
    /\ tentativas' = Tentativas(ticker, cnpj)
    /\ fnet_i' = 1
    /\ posts' = << >>
    /\ fnet_ret' = << >>
    /\ UNCHANGED <<clockVars, cacheVars, archiveVars, resVars, tlVars, extVars>>

\* one pass of the for loop: POST the variant, return its docs or continue
BuscarFnetPost(resp) ==
    /\ fnet_pc = "loop"
    /\ fnet_i <= Len(tentativas)
    /\ LET t == tentativas[fnet_i]
           docs == fnet_tentativa(t, resp, fnet_args.max_docs)
       IN  /\ posts' = Append(posts, [nome |-> t.nome, resp |-> resp])
           /\ IF docs # << >>
              THEN /\ fnet_ret' = docs
                   /\ fnet_pc' = "done"
                   /\ UNCHANGED fnet_i
              ELSE /\ fnet_i' = Proxima(fnet_i, Len(tentativas), resp)
                   /\ UNCHANGED <<fnet_ret, fnet_pc>>
    /\ UNCHANGED <<fnet_args, tentativas, clockVars, cacheVars, archiveVars, resVars, tlVars, extVars>>

\* the for loop is exhausted: return []
BuscarFnetVazio ==
    /\ fnet_pc = "loop"
    /\ fnet_i > Len(tentativas)
    /\ fnet_ret' = << >>
    /\ fnet_pc' = "done"
    /\ UNCHANGED <<fnet_args, tentativas, fnet_i, posts, clockVars, cacheVars,
                   archiveVars, resVars, tlVars, extVars>>

(***************************************************************************)
(* EntityResolver: descobrir_dados_fii                                     *)
(***************************************************************************)
MaxLinhas == 2

\* an excerpt of the embedded directory
FII_CNPJ_DB ==
    [t \in {"ABCP11", "HGLG11"} |->
        IF t = "ABCP11" THEN "01.201.140/0001-90" ELSE "11.728.688/0001-47"]

\* the ticker arguments tried, and ticker.upper().strip() of each
TickerInputs == {"ABCP11", " abcp11 ", "HGLG11", "ZZZZ11", "zzzz11"}
UpperStrip ==
    [t \in TickerInputs |->
        CASE t \in {"ABCP11", " abcp11 "} -> "ABCP11"
          [] t = "HGLG11" -> "HGLG11"
          [] t \in {"ZZZZ11", "zzzz11"} -> "ZZZZ11"]

\* the lookup done on the argument as given, without upper().strip()
ticker_as_given(ticker) == ticker
\* ticker_upper = ticker.upper().strip()
ticker_upper(ticker) == UpperStrip[ticker]

NumSites == 3

\* What the GET of one page can give: an exception, a response that is not
\* ok, or a page; a page holds a tax-ID pattern or none, and a heading longer
\* than 5 characters or none; the parsing of a page that holds a pattern
\* (BeautifulSoup(resp.text, "html.parser")) can raise on its markup.
PageResponses ==
    {[kind |-> "neterr", ok |-> FALSE, cnpj |-> None, nome |-> None, parse_raises |-> FALSE],
     [kind |-> "http", ok |-> FALSE, cnpj |-> "55.555.555/0001-55", nome |-> None,
      parse_raises |-> FALSE],
     [kind |-> "http", ok |-> TRUE, cnpj |-> "22.222.222/0001-22", nome |-> None,
      parse_raises |-> TRUE],
     [kind |-> "http", ok |-> TRUE, cnpj |-> "44.444.444/0001-44", nome |-> "FII ZZZZ",
      parse_raises |-> FALSE]}
    \cup [kind : {"http"}, ok : {TRUE}, cnpj : {None, "22.222.222/0001-22"},
          nome : {None, "FII ZZZZ"}, parse_raises : {FALSE}]

\* One line of cad_fi.csv after the header line (split("\n")[1:]): the
\* ticker its text contains (or another text) and the tax-ID pattern it
\* holds, if any.
Linhas == [ticker : {"ZZZZ11", "OUTRO"}, cnpj : {None, "33.333.333/0001-33"}]
Arquivos == UNION {[1..n -> Linhas] : n \in 0..MaxLinhas}

\* What the GET of cad_fi.csv can give.
CvmResponses ==
    {[kind |-> "neterr", ok |-> FALSE, linhas |-> << >>],
     [kind |-> "http", ok |-> FALSE, linhas |-> << >>]}
    \cup [kind : {"http"}, ok : {TRUE}, linhas : Arquivos]

EmptyResult == [cnpj |-> None, razao_social |-> None, cod_cvm |-> None]

\* resp.ok and cnpj_match: the page was fetched and holds a tax-ID pattern
PaginaTemCnpj(resp) == resp.kind = "http" /\ resp.ok /\ resp.cnpj # None

\* a return placed inside the heading loop, reached only when a name is found
PaginaRetornaComNome(resp) ==
    PaginaTemCnpj(resp) /\ ~resp.parse_raises /\ resp.nome # None
\* the return of line 497 is reached: the page holds a pattern and the
\* statements between the assignment of result["cnpj"] and the return did not
\* raise
PaginaRetorna(resp) == PaginaTemCnpj(resp) /\ ~resp.parse_raises

\* result after a page that matched
ResultadoDaPagina(res, resp) ==
    [res EXCEPT !.cnpj = resp.cnpj,
                !.razao_social = IF resp.nome # None THEN resp.nome ELSE @]

\* the scan of cad_fi.csv that takes the first line holding a pattern,
\* whatever ticker the line names
cnpj_da_primeira_linha(linhas, t) ==
    LET hits == SelectSeq(linhas, LAMBDA l : l.cnpj # None)
    IN  IF hits = << >> THEN None ELSE hits[1].cnpj
\* the scan of cad_fi.csv: the pattern of the first line that contains the
\* ticker and holds a pattern, or None
cnpj_do_cadastro(linhas, t) ==
    LET hits == SelectSeq(linhas, LAMBDA l : l.ticker = t /\ l.cnpj # None)
    IN  IF hits = << >> THEN None ELSE hits[1].cnpj

NoResolution == [ticker |-> None, result |-> EmptyResult, ncalls |-> 0,
                 repeat |-> FALSE, same |-> FALSE, ok |-> FALSE]

\* history: one GET of the running call; cnpj is the pattern it matched
Chamada(tier, fail, found, cnpj) ==
    [tier |-> tier, fail |-> fail, found |-> found, cnpj |-> IF found THEN cnpj ELSE None]

\* history: the call for ticker that completes with result res after calls
Completed(ticker, res, calls) ==
    [ticker |-> UpperStrip[ticker], result |-> res, ncalls |-> Len(calls),
     repeat |-> res_last.ok /\ res_last.ticker = UpperStrip[ticker],
     same |-> res_last.ok /\ res_last.result = res,
     ok |-> TRUE]

\* descobrir_dados_fii(ticker) up to the end of tier 1
DescobrirStart(ticker) ==
    /\ res_pc \in {"idle", "done"}
    /\ res_ticker' = ticker
    /\ res_calls' = << >>
    /\ IF ticker_upper(ticker) \in DOMAIN FII_CNPJ_DB
       THEN /\ result' = [EmptyResult EXCEPT !.cnpj = FII_CNPJ_DB[ticker_upper(ticker)]]
            /\ res_pc' = "done"
            /\ res_i' = 0
            /\ res_last' = Completed(ticker, result', << >>)
       ELSE /\ result' = EmptyResult
            /\ res_pc' = "sites"
            /\ res_i' = 1
            /\ UNCHANGED res_last
    /\ UNCHANGED <<clockVars, cacheVars, archiveVars, fnetVars,
                   tlVars, extVars>>

\* one pass of the for loop over sites: GET the page, take the pattern and
\* the name and return, or go on to the next page (or to tier 3)
DescobrirSite(resp) ==
    /\ res_pc = "sites"
    /\ res_i <= NumSites
    /\ res_calls' = Append(res_calls,
                           Chamada(2, resp.kind = "neterr" \/ ~resp.ok,
                                   resp.kind = "http" /\ resp.ok /\ resp.cnpj # None,
                                   resp.cnpj))
    /\ result' = IF PaginaTemCnpj(resp) THEN ResultadoDaPagina(result, resp) ELSE result
    /\ IF PaginaRetorna(resp)
       THEN /\ res_pc' = "done"
            /\ res_last' = Completed(res_ticker, result', res_calls')
            /\ UNCHANGED res_i
       ELSE /\ res_i' = res_i + 1
            /\ res_pc' = IF res_i + 1 > NumSites THEN "cvm" ELSE "sites"
            /\ UNCHANGED res_last
    /\ UNCHANGED <<res_ticker, clockVars, cacheVars, archiveVars, fnetVars,
                   tlVars, extVars>>

\* tier 3: the GET of cad_fi.csv, the scan and the return
DescobrirCvm(resp) ==
    /\ res_pc = "cvm"
    /\ res_calls' = Append(res_calls,
                           Chamada(3, resp.kind = "neterr" \/ ~resp.ok,
                                   /\ resp.kind = "http"
                                   /\ resp.ok
                                   /\ \E j \in 1..Len(resp.linhas) :
                                         /\ resp.linhas[j].ticker = UpperStrip[res_ticker]
                                         /\ resp.linhas[j].cnpj # None,
                                   cnpj_do_cadastro(resp.linhas, ticker_upper(res_ticker))))
    /\ LET achado == IF resp.kind = "http" /\ resp.ok
                     THEN cnpj_do_cadastro(resp.linhas, ticker_upper(res_ticker))
                     ELSE None
       IN  result' = IF achado # None THEN [result EXCEPT !.cnpj = achado] ELSE result
    /\ res_pc' = "done"
    /\ res_last' = Completed(res_ticker, result', res_calls')
    /\ UNCHANGED <<res_ticker, res_i, clockVars, cacheVars, archiveVars, fnetVars,
                   tlVars, extVars>>

(***************************************************************************)
(* SnapshotTimelineBuilder: cvm_evolucao_patrimonial, cvm_historico_vp     *)
(***************************************************************************)
MaxRows == 3

PeriodoLen == 7
AnoLen == 4

\* the values of the date column of a row: "" (or no such column), "2021",
\* "2020-11-30", "2020-12-31", "2021-03-31", "2021-06-30", "2021-12-31",
\* "2021-12" and "31/12/2021"
DtInputs ==
    {<< >>,
     <<2, 0, 2, 1>>,
     <<2, 0, 2, 0, -3, 1, 1, -3, 3, 0>>,
     <<2, 0, 2, 0, -3, 1, 2, -3, 3, 1>>,
     <<2, 0, 2, 1, -3, 0, 3, -3, 3, 1>>,
     <<2, 0, 2, 1, -3, 0, 6, -3, 3, 0>>,
     <<2, 0, 2, 1, -3, 1, 2, -3, 3, 1>>,
     <<2, 0, 2, 1, -3, 1, 2>>,
     <<3, 1, -1, 1, 2, -1, 2, 0, 2, 1>>}

\* A row of the entity: its date and whether it carries a net-asset value
\* and a units count that give a book value (pl and cotas and cotas > 0).
RowInputs == [dt : DtInputs, tem_vp : BOOLEAN]

\* a < b on str
RECURSIVE StrLess(_, _)
StrLess(a, b) ==
    IF b = << >> THEN FALSE
    ELSE IF a = << >> THEN TRUE
    ELSE IF a[1] # b[1] THEN a[1] < b[1]
    ELSE StrLess(Tail(a), Tail(b))

\* s[:n]
Slice(s, n) == SubSeq(s, 1, IF Len(s) < n THEN Len(s) ELSE n)

\* p.startswith(a)
StartsWith(p, a) == Len(p) >= Len(a) /\ SubSeq(p, 1, Len(a)) = a

\* sorted(S) for a set of str
RECURSIVE SortedStrs(_)
SortedStrs(S) ==
    IF S = {} THEN << >>
    ELSE LET m == CHOOSE x \in S : \A y \in S \ {x} : StrLess(x, y)
         IN  <<m>> \o SortedStrs(S \ {m})

\* list.sort(key=...) on a list of pairs <<key, item>>: stable, ascending
RECURSIVE SortedByKey(_)
SortedByKey(pairs) ==
    IF pairs = << >> THEN << >>
    ELSE LET rest == SortedByKey(Tail(pairs))
             \* the head goes before the first item whose key is not smaller
             before == SelectSeq(rest, LAMBDA q : StrLess(q[1], pairs[1][1]))
             after == SelectSeq(rest, LAMBDA q : ~StrLess(q[1], pairs[1][1]))
         IN  before \o <<pairs[1]>> \o after

\* todos_snapshots after one more row: an entry for periodo = dt[:7] is made
\* by the first row of that periodo; a row whose date is empty or shorter
\* than 7 is skipped
ComLinha(todos, row) ==
    LET dt == row.dt
        periodo == Slice(dt, PeriodoLen)
    IN  IF dt = << >> \/ Len(dt) < PeriodoLen THEN todos
        ELSE IF periodo \in DOMAIN todos THEN todos
        ELSE PutKey(todos, periodo, [periodo |-> periodo, data |-> dt])

\* the December test without "and dez not in periodos_incluidos"
DezPresente(dez, todos, incluidos) == dez \in DOMAIN todos
\* dez in todos_snapshots and dez not in periodos_incluidos
DezNovo(dez, todos, incluidos) == dez \in DOMAIN todos /\ dez \notin incluidos

\* the first month of the year taken in place of the last
PrimeiroMes(meses_ano) == meses_ano[1]
\* ultimo_mes = meses_ano[-1]
UltimoMes(meses_ano) == meses_ano[Len(meses_ano)]

\* the loop over anos_disponiveis, on the pair (selecionados, periodos_incluidos)
RECURSIVE SelecionarAnos(_, _, _, _)
SelecionarAnos(anos, todos, ordenados, acc) ==
    IF anos = << >> THEN acc
    ELSE LET a == anos[1]
             dez == a \o <<-3, 1, 2>>
             meses_ano == SelectSeq(ordenados, LAMBDA p : StartsWith(p, a))
             ultimo_mes == UltimoMes(meses_ano)
             next ==
                 IF DezNovo(dez, todos, acc.incluidos)
                 THEN [sel |-> Append(acc.sel, todos[dez]),
                       incluidos |-> acc.incluidos \cup {dez}]
                 ELSE IF meses_ano # << >> /\ ultimo_mes \notin acc.incluidos
                 THEN [sel |-> Append(acc.sel, todos[ultimo_mes]),
                       incluidos |-> acc.incluidos \cup {ultimo_mes}]
                 ELSE acc
         IN  SelecionarAnos(Tail(anos), todos, ordenados, next)

\* selecionados, from todos_snapshots (not empty) to the final sort
Selecionados(todos) ==
    LET periodos_ordenados == SortedStrs(DOMAIN todos)
        primeiro_periodo == periodos_ordenados[1]
        anos_disponiveis == SortedStrs({Slice(p, AnoLen) : p \in DOMAIN todos})
        acc == SelecionarAnos(anos_disponiveis, todos, periodos_ordenados,
                              [sel |-> <<todos[primeiro_periodo]>>,
                               incluidos |-> {primeiro_periodo}])
        ultimo_periodo == periodos_ordenados[Len(periodos_ordenados)]
        sel == IF ultimo_periodo \notin acc.incluidos
               THEN Append(acc.sel, todos[ultimo_periodo]) ELSE acc.sel
        sorted == SortedByKey([j \in 1..Len(sel) |-> <<sel[j].periodo, sel[j]>>])
    IN  [j \in 1..Len(sorted) |-> sorted[j][2]]

\* pontos after one more row: a point is appended when the row has a date
\* and gives a book value
ComPonto(pts, row) ==
    IF row.dt # << >> /\ row.tem_vp THEN Append(pts, [data |-> row.dt]) ELSE pts

\* pontos_unicos before the sort: the first point of each data
RECURSIVE PontosUnicos(_, _)
PontosUnicos(pts, vistos) ==
    IF pts = << >> THEN << >>
    ELSE IF pts[1].data \in vistos THEN PontosUnicos(Tail(pts), vistos)
    ELSE <<pts[1]>> \o PontosUnicos(Tail(pts), vistos \cup {pts[1].data})

\* a request reaches one of the two endpoints, for a resolved FII
TimelineStart(op) ==
    /\ tl_pc \in {"idle", "done"}
    /\ tl_op' = op
    /\ tl_pc' = "rows"
    /\ tl_rows' = << >>
    /\ todos_snapshots' = << >>
    /\ pontos' = << >>
    /\ snapshots' = << >>
    /\ historico' = << >>
    /\ UNCHANGED <<clockVars, cacheVars, archiveVars, fnetVars, resVars, extVars>>

\* cvm_evolucao_patrimonial: one pass of "for row in filtrado", over the
\* years and CSVs in the order the code visits them
EvolucaoRow(row) ==
    /\ tl_op = "evolucao"
    /\ tl_pc = "rows"
    /\ Len(tl_rows) < MaxRows
    /\ tl_rows' = Append(tl_rows, row)
    /\ todos_snapshots' = ComLinha(todos_snapshots, row)
    /\ UNCHANGED <<tl_op, tl_pc, pontos, snapshots, historico, clockVars, cacheVars,
                   archiveVars, fnetVars, resVars, extVars>>

\* cvm_evolucao_patrimonial after the loops: the "snapshots" list (no list
\* when no row gave a periodo)
EvolucaoSelect ==
    /\ tl_op = "evolucao"
    /\ tl_pc = "rows"
    /\ snapshots' = IF DOMAIN todos_snapshots = {} THEN << >>
                    ELSE Selecionados(todos_snapshots)
    /\ tl_pc' = "done"
    /\ UNCHANGED <<tl_op, tl_rows, todos_snapshots, pontos, historico, clockVars,
                   cacheVars, archiveVars, fnetVars, resVars, extVars>>

\* cvm_historico_vp: one pass of "for row in filtrado"
HistoricoRow(row) ==
    /\ tl_op = "historico"
    /\ tl_pc = "rows"
    /\ Len(tl_rows) < MaxRows
    /\ tl_rows' = Append(tl_rows, row)
    /\ pontos' = ComPonto(pontos, row)
    /\ UNCHANGED <<tl_op, tl_pc, todos_snapshots, snapshots, historico, clockVars,
                   cacheVars, archiveVars, fnetVars, resVars, extVars>>

\* cvm_historico_vp after the loops: the "historico" list
HistoricoDedupSort ==
    /\ tl_op = "historico"
    /\ tl_pc = "rows"
    /\ LET unicos == PontosUnicos(pontos, {})
           sorted == SortedByKey([j \in 1..Len(unicos) |-> <<unicos[j].data, unicos[j]>>])
       IN  historico' = [j \in 1..Len(sorted) |-> sorted[j][2]]
    /\ tl_pc' = "done"
    /\ UNCHANGED <<tl_op, tl_rows, todos_snapshots, pontos, snapshots, clockVars,
                   cacheVars, archiveVars, fnetVars, resVars, extVars>>

(***************************************************************************)
(* One period's snapshot in cvm_evolucao_patrimonial: the merge of the     *)
(* rows of the period and the post-processing.  Amounts are integers; a    *)
(* value of 0 stands for a column that is missing, empty, "0" or not a     *)
(* number (_extrair_float_safe gives 0.0 and the extractors skip it).      *)
(* vp_cota is kept in units of 0.0001.  A dict that the code holds as None *)
(* until its first non-empty write is the empty function until then.       *)
(***************************************************************************)
MaxSnapRows == 3

PlValues == {0, 1000, 2000}
CotasValues == {0, 1000, -5}

\* the sort key of csvs_ordenados
Prioridade(tabela) ==
    CASE tabela = "ativo_passivo" -> 0
      [] tabela = "complemento" -> 1
      [] tabela = "geral" -> 2

\* A row of the period: the table it is in, its net assets and units columns,
\* and (ativo_passivo only) whether it has an asset column.
SnapRows ==
    [tabela : {"ativo_passivo"}, pl : PlValues, cotas : CotasValues, ativos : BOOLEAN]
    \cup [tabela : {"complemento", "geral"}, pl : PlValues, cotas : CotasValues,
          ativos : {FALSE}]

\* round(n / c, 4) in units of 0.0001, for c > 0: nearest, ties to even
Round4(n, c) ==
    LET q == (n * 10000) \div c
        r == (n * 10000) - q * c
    IN  IF 2 * r < c THEN q
        ELSE IF 2 * r > c THEN q + 1
        ELSE IF q % 2 = 0 THEN q ELSE q + 1

\* the dict with the non-zero ones of the two columns
CamposNaoNulos(row) ==
    LET val == [f \in {"patrimonio_liquido", "cotas_emitidas"} |->
                   IF f = "patrimonio_liquido" THEN row.pl ELSE row.cotas]
    IN  [f \in {g \in DOMAIN val : val[g] # 0} |-> val[f]]

\* _extrair_composicao(row): the groups "ativos" and "gerais", each only when
\* not empty
ExtrairComposicao(row) ==
    LET gerais == CamposNaoNulos(row)
        grupos == (IF row.ativos THEN {"ativos"} ELSE {})
                  \cup (IF DOMAIN gerais # {} THEN {"gerais"} ELSE {})
    IN  [g \in grupos |-> IF g = "gerais" THEN gerais
                          ELSE [f \in {"_total_investido"} |-> 1]]

\* if pl and cotas and cotas > 0
TemVp(dados) ==
    /\ "patrimonio_liquido" \in DOMAIN dados
    /\ "cotas_emitidas" \in DOMAIN dados
    /\ dados["patrimonio_liquido"] # 0
    /\ dados["cotas_emitidas"] > 0

\* dados with vp_cota = round(pl / cotas, 4) added
ComVpCota(dados) ==
    [f \in DOMAIN dados \cup {"vp_cota"} |->
        IF f = "vp_cota"
        THEN Round4(dados["patrimonio_liquido"], dados["cotas_emitidas"])
        ELSE dados[f]]

\* _extrair_dados_gerais(row)
ExtrairDadosGerais(row) ==
    LET dados == CamposNaoNulos(row)
    IN  IF TemVp(dados) THEN ComVpCota(dados) ELSE dados

\* a merge in which the new value replaces the one already there
MergeSobrescreve(antigo, novos) ==
    [k \in DOMAIN antigo \cup DOMAIN novos |->
        IF k \in DOMAIN novos THEN novos[k] ELSE antigo[k]]
\* for k2, v2 in novos.items(): if k2 not in antigo: antigo[k2] = v2
MergeFaltantes(antigo, novos) ==
    [k \in DOMAIN antigo \cup DOMAIN novos |->
        IF k \in DOMAIN antigo THEN antigo[k] ELSE novos[k]]

\* novos.get("gerais", {})
GeraisDe(comp) == IF "gerais" \in DOMAIN comp THEN comp["gerais"] ELSE << >>

\* the body of "for row in filtrado" from "snap = todos_snapshots[periodo]"
\* on, as the pair (composicao, dados_gerais)
MergeLinha(comp, dg, row) ==
    LET is_ativo_passivo == row.tabela = "ativo_passivo"
        novos_c == ExtrairComposicao(row)
        comp1 == IF is_ativo_passivo THEN MergeFaltantes(comp, novos_c) ELSE comp
        dg1 == IF is_ativo_passivo THEN MergeFaltantes(dg, GeraisDe(novos_c)) ELSE dg
        novos_d == ExtrairDadosGerais(row)
        dg2 == IF row.tabela \in {"complemento", "geral"}
               THEN MergeFaltantes(dg1, novos_d) ELSE dg1
    IN  [composicao |-> comp1, dados_gerais |-> dg2]

\* the post-processing of one snapshot
PosProcessar(comp, dg) ==
    LET dg1 == MergeFaltantes(dg, GeraisDe(comp))
    IN  IF DOMAIN dg1 # {} /\ "vp_cota" \notin DOMAIN dg1 /\ TemVp(dg1)
        THEN ComVpCota(dg1) ELSE dg1

\* the first row of a period creates its snapshot
SnapStart ==
    /\ snap_pc \in {"idle", "done"}
    /\ snap_pc' = "merge"
    /\ snap_rows' = << >>
    /\ composicao' = << >>
    /\ dados_gerais' = << >>
    /\ UNCHANGED <<clockVars, cacheVars, archiveVars, fnetVars, resVars, tlVars, sumVars, bldVars, fltVars,
                   newVars>>

\* one row of the period is merged; the rows come table by table in the order
\* of csvs_ordenados, from the archive of the period's year
SnapMerge(row) ==
    /\ snap_pc = "merge"
    /\ Len(snap_rows) < MaxSnapRows
    /\ snap_rows # << >> =>
           Prioridade(snap_rows[Len(snap_rows)].tabela) <= Prioridade(row.tabela)
    /\ LET m == MergeLinha(composicao, dados_gerais, row)
       IN  /\ composicao' = m.composicao
           /\ dados_gerais' = m.dados_gerais
    /\ snap_rows' = Append(snap_rows, row)
    /\ UNCHANGED <<snap_pc, clockVars, cacheVars, archiveVars, fnetVars, resVars, tlVars, sumVars, bldVars, fltVars,
                   newVars>>

\* the snapshot is selected and post-processed
SnapPos ==
    /\ snap_pc = "merge"
    /\ snap_rows # << >>
    /\ dados_gerais' = PosProcessar(composicao, dados_gerais)
    /\ snap_pc' = "done"
    /\ UNCHANGED <<snap_rows, composicao, clockVars, cacheVars, archiveVars, fnetVars,
                   resVars, tlVars, sumVars, bldVars, fltVars, newVars>>

(***************************************************************************)
(* The summary variation of the two builders.  A book value is a record    *)
(* [tem, v]: tem is FALSE when the key is missing (None), v is the value,  *)
(* here a multiple of 0.01 and kept in units of 0.01; the variation is in  *)
(* units of 0.01 too.                                                      *)
(***************************************************************************)
SemValor == [tem |-> FALSE, v |-> 0]
Valor(v) == [tem |-> TRUE, v |-> v]

\* book values: 0, 0.01, 0.03, 1, 100, 115 and -100
VpValues == {0, 1, 3, 100, 10000, 11500, -10000}
VpInputs == {SemValor} \cup {Valor(v) : v \in VpValues}

\* round(((fim - ini) / ini) * 100, 2) in units of 0.01
VariacaoPct(ini, fim) == Round4(fim - ini, ini)

\* truth of a value that is None or a float
Truthy(x) == x.tem /\ x.v # 0

\* a guard that only excludes a zero or missing first value
GuardaNaoZero(ini) == Truthy(ini)
\* vp_inicio and ... and vp_inicio > 0
GuardaInicio(ini) == Truthy(ini) /\ ini.v > 0

\* resumo["variacao_vp_pct"] of cvm_evolucao_patrimonial, SemValor when the
\* key is not set
variacao_vp_pct(vp_inicio, vp_fim) ==
    IF GuardaInicio(vp_inicio) /\ Truthy(vp_fim)
    THEN Valor(VariacaoPct(vp_inicio.v, vp_fim.v)) ELSE SemValor

\* variacao_vp of cvm_historico_vp; primeiro and ultimo are the vp_cota of the
\* first and last point, SemValor when pontos_unicos is empty
variacao_vp(primeiro, ultimo) ==
    IF primeiro.tem /\ ultimo.tem /\ primeiro.v > 0
    THEN Valor(VariacaoPct(primeiro.v, ultimo.v)) ELSE SemValor

\* cvm_evolucao_patrimonial: the VP/cota part of resumo
ResumoEvolucao(vp_inicio, vp_fim) ==
    /\ sum_op' = "evolucao"
    /\ sum_in' = [ini |-> vp_inicio, fim |-> vp_fim]
    /\ sum_out' = variacao_vp_pct(vp_inicio, vp_fim)
    /\ UNCHANGED <<clockVars, cacheVars, archiveVars, fnetVars, resVars, tlVars, snapVars,
                   bldVars, fltVars, newVars>>

\* cvm_historico_vp: variacao_vp_percentual
ResumoHistorico(primeiro, ultimo) ==
    /\ primeiro.tem = ultimo.tem
    /\ sum_op' = "historico"
    /\ sum_in' = [ini |-> primeiro, fim |-> ultimo]
    /\ sum_out' = variacao_vp(primeiro, ultimo)
    /\ UNCHANGED <<clockVars, cacheVars, archiveVars, fnetVars, resVars, tlVars, snapVars,
                   bldVars, fltVars, newVars>>

(***************************************************************************)
(* The range-based operations: resolution check, parallel download of the  *)
(* yearly archives (ThreadPoolExecutor / as_completed), reading of the     *)
(* years that succeeded, and the shape of what is returned.  The current   *)
(* year (datetime.now().year) is PrimeiroAno + MaxAnos - 1.                *)
(***************************************************************************)
MaxAnos == 2

PrimeiroAno == 2016
AnoAtual == PrimeiroAno + MaxAnos - 1

\* range(a, b + 1)
RECURSIVE Range(_, _)
Range(a, b) == IF a > b THEN << >> ELSE <<a>> \o Range(a + 1, b)

SeqToSet(s) == {s[j] : j \in 1..Len(s)}

\* the operations modelled, the ano_inicio arguments tried (the last one is
\* after the current year) and the cnpj the resolver gave
BuildOps == {"evolucao", "historico", "contabilidade", "transacoes"}
AnosInicio == PrimeiroAno..(AnoAtual + 1)
CnpjResolvidos == {None, "11.728.688/0001-47"}

\* what a download of one year can give: tables with rows of the entity,
\* tables without any, or {"erro": ...} (failure, timeout)
FetchOutcomes == {"ok_rows", "ok_vazio", "erro"}

\* anos of the operation
AnosDe(op, ano_inicio) ==
    IF op = "historico" THEN Range(PrimeiroAno, AnoAtual) ELSE Range(ano_inicio, AnoAtual)

\* max_workers of the executor of the operation
max_workers(op, n) == IF op = "historico" THEN 10 ELSE IF n < 10 THEN n ELSE 10

\* ThreadPoolExecutor(max_workers=...) raises ValueError
ExecutorRaises(op, n) == max_workers(op, n) <= 0

NoReturn == [tipo |-> None, chaves |-> {}]
RetornoCnpj == [tipo |-> "erro", chaves |-> {"ticker", "erro"}]

\* a return for "no data" that has the shape of a timeline
RetornoSempreTimeline(op, achou) ==
    [tipo |-> "timeline",
     chaves |-> {"ticker", "cnpj", "nome", "resumo", "snapshots", "consultado_em"}]
\* what the operation returns after the years were read; achou: some row of
\* the entity was found
Retorno(op, achou) ==
    CASE op = "evolucao" /\ ~achou ->
            [tipo |-> "erro", chaves |-> {"ticker", "cnpj", "erro"}]
      [] op = "evolucao" /\ achou ->
            [tipo |-> "timeline",
             chaves |-> {"ticker", "cnpj", "nome", "resumo", "snapshots", "consultado_em"}]
      [] op = "historico" ->
            [tipo |-> "timeline",
             chaves |-> {"ticker", "cnpj", "nome", "total_pontos", "primeiro", "ultimo",
                         "variacao_vp_percentual", "historico", "consultado_em"}]
      [] op = "contabilidade" ->
            [tipo |-> "resultado",
             chaves |-> {"ticker", "cnpj", "nome", "periodo", "dre", "balanco", "resumo",
                         "consultado_em"}]
      [] op = "transacoes" ->
            [tipo |-> "resultado", chaves |-> {"ticker", "cnpj", "timeline", "resumo"}]

\* the operation up to the submission of the downloads
BuildStart(op, cnpj, ano_inicio) ==
    /\ bld_pc \in {"idle", "done", "raised"}
    /\ bld_op' = op
    /\ bld_cnpj' = cnpj
    /\ coletados' = {}
    /\ csvs_por_ano' = << >>
    /\ lidos' = {}
    /\ LET as == AnosDe(op, ano_inicio)
       IN  IF cnpj = None
           THEN /\ bld_pc' = "done"
                /\ bld_ret' = RetornoCnpj
                /\ bld_anos' = << >>
                /\ futures' = << >>
           ELSE IF ExecutorRaises(op, Len(as))
           THEN /\ bld_anos' = as
                /\ futures' = << >>
                /\ IF op = "transacoes"
                   THEN /\ bld_pc' = "done"
                        /\ bld_ret' = [tipo |-> "erro",
                                       chaves |-> {"ticker", "erro", "timeline", "resumo"}]
                   ELSE /\ bld_pc' = "raised"
                        /\ bld_ret' = NoReturn
           ELSE /\ bld_anos' = as
                /\ futures' = [a \in SeqToSet(as) |-> "running"]
                /\ bld_pc' = "fetch"
                /\ bld_ret' = NoReturn
    /\ UNCHANGED <<clockVars, cacheVars, archiveVars, fnetVars, resVars, tlVars, snapVars,
                   sumVars, fltVars, newVars>>

\* a worker thread finishes the download of one year
FetchDone(ano, outcome) ==
    /\ bld_pc = "fetch"
    /\ ano \in DOMAIN futures
    /\ futures[ano] = "running"
    /\ futures' = [futures EXCEPT ![ano] = outcome]
    /\ UNCHANGED <<bld_pc, bld_op, bld_cnpj, bld_anos, coletados, csvs_por_ano, lidos, bld_ret,
                   clockVars, cacheVars, archiveVars, fnetVars, resVars, tlVars, snapVars,
                   sumVars, fltVars, newVars>>

\* a collection that stops at the first failed year, leaving the others out
ColetaParaNoErro(csvs, ano, resultado) ==
    IF resultado = "erro" THEN [a \in {} |-> resultado]
    ELSE [a \in DOMAIN csvs \cup {ano} |-> IF a = ano THEN resultado ELSE csvs[a]]
\* if "erro" not in resultado: csvs_por_ano[ano] = resultado
Coleta(csvs, ano, resultado) ==
    IF resultado = "erro" THEN csvs
    ELSE [a \in DOMAIN csvs \cup {ano} |-> IF a = ano THEN resultado ELSE csvs[a]]

\* one pass of "for future in as_completed(futures)"
Coletar(ano) ==
    /\ bld_pc = "fetch"
    /\ ano \in DOMAIN futures
    /\ futures[ano] # "running"
    /\ ano \notin coletados
    /\ coletados' = coletados \cup {ano}
    /\ csvs_por_ano' = Coleta(csvs_por_ano, ano, futures[ano])
    /\ UNCHANGED <<bld_pc, bld_op, bld_cnpj, bld_anos, futures, lidos, bld_ret,
                   clockVars, cacheVars, archiveVars, fnetVars, resVars, tlVars, snapVars,
                   sumVars, fltVars, newVars>>

\* the loop that ends as soon as one future was collected
SaiComUmColetado(col, fut) == col # {}
\* as_completed has yielded every future and the with block is left
TodosColetados(col, fut) == col = DOMAIN fut

SairDoWith ==
    /\ bld_pc = "fetch"
    /\ TodosColetados(coletados, futures)
    /\ bld_pc' = "read"
    /\ UNCHANGED <<bld_op, bld_cnpj, bld_anos, futures, coletados, csvs_por_ano, lidos, bld_ret,
                   clockVars, cacheVars, archiveVars, fnetVars, resVars, tlVars, snapVars,
                   sumVars, fltVars, newVars>>

\* one pass of "for ano in sorted(csvs_por_ano.keys())": the rows of the year
\* are read
LerAno ==
    /\ bld_pc = "read"
    /\ DOMAIN csvs_por_ano \ lidos # {}
    /\ LET ano == CHOOSE a \in DOMAIN csvs_por_ano \ lidos :
                      \A b \in DOMAIN csvs_por_ano \ lidos : a <= b
       IN  lidos' = lidos \cup {ano}
    /\ UNCHANGED <<bld_pc, bld_op, bld_cnpj, bld_anos, futures, coletados, csvs_por_ano, bld_ret,
                   clockVars, cacheVars, archiveVars, fnetVars, resVars, tlVars, snapVars,
                   sumVars, fltVars, newVars>>

\* the years are read: the operation returns
Retornar ==
    /\ bld_pc = "read"
    /\ DOMAIN csvs_por_ano \ lidos = {}
    /\ bld_ret' = Retorno(bld_op, \E a \in lidos : csvs_por_ano[a] = "ok_rows")
    /\ bld_pc' = "done"
    /\ UNCHANGED <<bld_op, bld_cnpj, bld_anos, futures, coletados, csvs_por_ano, lidos,
                   clockVars, cacheVars, archiveVars, fnetVars, resVars, tlVars, snapVars,
                   sumVars, fltVars, newVars>>

\* re.sub(r"\D", "", cnpj) raises TypeError: cnpj is None, the value of the key
\* "cnpj" of a result that found nothing (get's default is for a missing key)
ReSubRaises(cnpj) == cnpj = None

\* fnet_redirect: the FNET helper page
FnetRedirect(cnpj) ==
    /\ bld_pc \in {"idle", "done", "raised"}
    /\ bld_op' = "fnet_redirect"
    /\ bld_cnpj' = cnpj
    /\ bld_anos' = << >>
    /\ futures' = << >>
    /\ coletados' = {}
    /\ csvs_por_ano' = << >>
    /\ lidos' = {}
    /\ IF ReSubRaises(cnpj)
       THEN /\ bld_pc' = "raised"
            /\ bld_ret' = NoReturn
       ELSE /\ bld_pc' = "done"
            /\ bld_ret' = [tipo |-> "pagina", chaves |-> {}]
    /\ UNCHANGED <<clockVars, cacheVars, archiveVars, fnetVars, resVars, tlVars, snapVars,
                   sumVars, fltVars, newVars>>

(***************************************************************************)
(* _filtrar_por_cnpj.  A row is the list of its columns in order; of a     *)
(* column only whether its name contains "cnpj" and its value matter.      *)
(***************************************************************************)
MaxFiltroRows == 2

CnpjDigitos == 14

\* "11.728.688/0001-47", "11728688000147", "01.201.140/0001-90", "10/2024"
CnpjPontuado == <<1, 1, -2, 7, 2, 8, -2, 6, 8, 8, -1, 0, 0, 0, 1, -3, 4, 7>>
CnpjSoDigitos == <<1, 1, 7, 2, 8, 6, 8, 8, 0, 0, 0, 1, 4, 7>>
OutroCnpj == <<0, 1, -2, 2, 0, 1, -2, 1, 4, 0, -1, 0, 0, 0, 1, -3, 9, 0>>
MesAno == <<1, 0, -1, 2, 0, 2, 4>>

\* the values of a column, "" (or None) among them
ColValues == {<< >>, CnpjPontuado, CnpjSoDigitos, OutroCnpj, MesAno}
Colunas == [tem_cnpj : BOOLEAN, val : ColValues]

\* the rows: one column, or a column named after cnpj followed by another one
FiltroRows ==
    {<<c>> : c \in Colunas}
    \cup {<<c, e>> : c \in [tem_cnpj : {TRUE}, val : ColValues],
                     e \in [tem_cnpj : {FALSE}, val : ColValues]}

\* the cnpj and cnpjs_classe arguments
FiltroCnpjs == {<< >>, CnpjPontuado, CnpjSoDigitos}
FiltroClasses == {<< >>, <<OutroCnpj, << >>>>}

\* the value compared as it stands
SemLimpeza(s) == s
\* re.sub(r"\D", "", s)
SoDigitos(s) == SelectSeq(s, IsDigit)

\* cnpjs_busca
CnpjsBusca(cnpj, cnpjs_classe) ==
    {SoDigitos(cnpj)}
    \cup {SoDigitos(cnpjs_classe[j]) : j \in {k \in 1..Len(cnpjs_classe) :
                                               SoDigitos(cnpjs_classe[k]) # << >>}}

\* the first loop: a column whose name contains "cnpj" holds a searched value
AchaEmColunaCnpj(row, busca) ==
    \E j \in 1..Len(row) : row[j].tem_cnpj /\ SoDigitos(row[j].val) \in busca

\* the fallback loop: any column whose value has a "/" or 14 digits
AchaEmQualquerColuna(row, busca) ==
    \E j \in 1..Len(row) :
        /\ \/ \E k \in 1..Len(row[j].val) : row[j].val[k] = -1
           \/ Len(SoDigitos(row[j].val)) = CnpjDigitos
        /\ SoDigitos(row[j].val) \in busca

\* _filtrar_por_cnpj(rows, cnpj, cnpjs_classe)
filtrar_por_cnpj(rows, cnpj, cnpjs_classe) ==
    IF SoDigitos(cnpj) = << >> THEN << >>
    ELSE LET busca == CnpjsBusca(cnpj, cnpjs_classe)
         IN  SelectSeq(rows, LAMBDA row : \/ AchaEmColunaCnpj(row, busca)
                                          \/ AchaEmQualquerColuna(row, busca))

\* a table gets one more row
FiltroRow(row) ==
    /\ Len(flt_rows) < MaxFiltroRows
    /\ flt_rows' = Append(flt_rows, row)
    /\ flt_args' = [cnpj |-> << >>, cnpjs_classe |-> << >>, feito |-> FALSE]
    /\ flt_ret' = << >>
    /\ UNCHANGED <<clockVars, cacheVars, archiveVars, fnetVars, resVars, tlVars, snapVars,
                   sumVars, bldVars, newVars>>

\* the table is filtered
Filtrar(cnpj, cnpjs_classe) ==
    /\ flt_args' = [cnpj |-> cnpj, cnpjs_classe |-> cnpjs_classe, feito |-> TRUE]
    /\ flt_ret' = filtrar_por_cnpj(flt_rows, cnpj, cnpjs_classe)
    /\ UNCHANGED <<flt_rows, clockVars, cacheVars, archiveVars, fnetVars, resVars, tlVars,
                   snapVars, sumVars, bldVars, newVars>>

(***************************************************************************)
(* Class tax IDs: _descobrir_cnpj_classe, and the attribution of rows by   *)
(* the timeline builder.  A table is the list of its rows; a row is a dict *)
(* from the table's column names to str values.                            *)
(***************************************************************************)
MaxAliasRows == 2

Espaco == -4
\* "26.502.794/0001-85", a class tax ID; "ABCP11"; "FII ABCP11"; "ABCP"
ClasseCnpj == <<2, 6, -2, 5, 0, 2, -2, 7, 9, 4, -1, 0, 0, 0, 1, -3, 8, 5>>
TickerAbcp == <<10, 11, 12, 25, 1, 1>>
NomeComTicker == <<15, 18, 18, Espaco, 10, 11, 12, 25, 1, 1>>

\* the tables the timeline builder reads, with their columns in file order
CsvNomes == {"geral", "complemento"}
ColunasDoCsv ==
    [geral |-> <<"CNPJ_Fundo", "CNPJ_Fundo_Classe", "Nome">>,
     complemento |-> <<"CNPJ_Fundo_Classe">>]

\* "cnpj" in col_clean
NomeTemCnpj(c) == c \in {"CNPJ_Fundo", "CNPJ_Fundo_Classe"}
\* "cnpj" in cl and "classe" in cl
EhColClasse(c) == c = "CNPJ_Fundo_Classe"
\* "cnpj" in cl and "fundo" in cl and "classe" not in cl and "admin" not in cl,
\* or cl == "cnpj" or cl == "cnpj_fundo"
EhColFundo(c) == c = "CNPJ_Fundo"

AliasRowInputs ==
    [geral |-> [CNPJ_Fundo : {CnpjPontuado, OutroCnpj},
                CNPJ_Fundo_Classe : {<< >>, ClasseCnpj},
                Nome : {<< >>, NomeComTicker}],
     complemento |-> [CNPJ_Fundo_Classe : {ClasseCnpj, CnpjSoDigitos, OutroCnpj}]]

AliasCnpjs == {CnpjPontuado, CnpjSoDigitos}
AliasTickers == {<< >>, TickerAbcp}

\* sub in s
Contem(sub, s) ==
    \E i \in 0..(Len(s) - Len(sub)) : \A k \in 1..Len(sub) : s[i + k] = sub[k]

\* re.sub(r"\d+$", "", ticker_upper)
RECURSIVE ticker_base(_)
ticker_base(t) ==
    IF t # << >> /\ IsDigit(t[Len(t)]) THEN ticker_base(SubSeq(t, 1, Len(t) - 1)) ELSE t

\* the column the loop of lines 1254-1261 leaves in col_classe / col_fundo: the
\* last one of its kind, or None
col_classe(colunas) ==
    LET js == {j \in 1..Len(colunas) : EhColClasse(colunas[j])}
    IN  IF js = {} THEN None ELSE colunas[CHOOSE j \in js : \A k \in js : k <= j]
col_fundo(colunas) ==
    LET js == {j \in 1..Len(colunas) : EhColFundo(colunas[j])}
    IN  IF js = {} THEN None ELSE colunas[CHOOSE j \in js : \A k \in js : k <= j]

\* the test of line 1280 on one value
ValorTemTicker(val, ticker) ==
    \/ Contem(ticker, val)
    \/ /\ ticker_base(ticker) # << >>
       /\ Len(ticker_base(ticker)) >= 3
       /\ Contem(<<Espaco>> \o ticker_base(ticker), <<Espaco>> \o val)

\* the class tax IDs one table contributes
ClassesDoCsv(colunas, rows, cnpj_fundo, ticker) ==
    LET cc == col_classe(colunas)
        cf == col_fundo(colunas)
        js == 1..Len(rows)
    IN  IF rows = << >> \/ cc = None THEN {}
        ELSE {SoDigitos(rows[j][cc]) :
                 j \in {k \in js :
                          /\ cf # None
                          /\ SoDigitos(rows[k][cf]) = SoDigitos(cnpj_fundo)
                          /\ SoDigitos(rows[k][cc]) # << >>}}
             \cup
             {SoDigitos(rows[j][cc]) :
                 j \in {k \in js :
                          /\ ticker # << >>
                          /\ \E i \in 1..Len(colunas) :
                                ValorTemTicker(rows[k][colunas[i]], ticker)
                          /\ SoDigitos(rows[k][cc]) # << >>}}

\* _descobrir_cnpj_classe(csvs_por_ano, cnpj_fundo, ticker), as a set
descobrir_cnpj_classe(csvs, cnpj_fundo, ticker) ==
    UNION {ClassesDoCsv(ColunasDoCsv[n], csvs[n], cnpj_fundo, ticker) : n \in DOMAIN csvs}
    \cup {SoDigitos(cnpj_fundo)}

\* row.items() as _filtrar_por_cnpj looks at it
ItensDe(colunas, row) ==
    [j \in 1..Len(colunas) |-> [tem_cnpj |-> NomeTemCnpj(colunas[j]), val |-> row[colunas[j]]]]
ItensDasLinhas(colunas, rows) == [j \in 1..Len(rows) |-> ItensDe(colunas, rows[j])]

\* list(cnpjs_encontrados)
RECURSIVE ListaDe(_)
ListaDe(S) == IF S = {} THEN << >> ELSE LET x == CHOOSE y \in S : TRUE
                                        IN  <<x>> \o ListaDe(S \ {x})

\* filtrado of line 2944: the builder passes no class tax IDs
FiltradoDaEvolucao(colunas, rows, cnpj, classes) ==
    filtrar_por_cnpj(ItensDasLinhas(colunas, rows), cnpj, << >>)
\* filtrado as cvm_imoveis computes it (line 3334)
FiltradoComClasses(colunas, rows, cnpj, classes) ==
    filtrar_por_cnpj(ItensDasLinhas(colunas, rows), cnpj, ListaDe(classes))

NoAliasArgs == [cnpj |-> << >>, ticker |-> << >>, feito |-> FALSE]

\* a table of the year's archive gets one more row
AliasRow(nome, row) ==
    /\ Len(als_csvs[nome]) < MaxAliasRows
    /\ als_csvs' = [als_csvs EXCEPT ![nome] = Append(@, row)]
    /\ als_args' = NoAliasArgs
    /\ als_classes' = {}
    /\ atribuidas' = [n \in CsvNomes |-> << >>]
    /\ UNCHANGED <<oldVars, nrmVars, amtVars, repVars, lstVars, ofeVars>>

\* cvm_evolucao_patrimonial filters each table for the entity (2932-2946);
\* the class tax IDs of the entity are computed beside it
AliasEvolucao(cnpj, ticker) ==
    /\ als_args' = [cnpj |-> cnpj, ticker |-> ticker, feito |-> TRUE]
    /\ als_classes' = descobrir_cnpj_classe(als_csvs, cnpj, ticker)
    /\ atribuidas' = [n \in CsvNomes |->
                        FiltradoDaEvolucao(ColunasDoCsv[n], als_csvs[n], cnpj,
                                           descobrir_cnpj_classe(als_csvs, cnpj, ticker))]
    /\ UNCHANGED <<als_csvs, oldVars, nrmVars, amtVars, repVars, lstVars, ofeVars>>

(***************************************************************************)
(* The normalizers on the columns of one row: _extrair_dados_gerais and    *)
(* the "gerais" group of _extrair_composicao.  A row is the list of its    *)
(* columns in the order of row.items(); a value is what                    *)
(* _extrair_float_safe gives for it (0 for a missing or invalid one).      *)
(***************************************************************************)
MaxColunas == 3

\* the part of map_direto (2814-2846) on the columns below
map_direto ==
    [Patrimonio_Liquido |-> "patrimonio_liquido",
     Total_Patrimonio_Liquido |-> "patrimonio_liquido",
     Quantidade_Cotas_Emitidas |-> "cotas_emitidas"]

\* the part of map_gerais (2767-2776) on the columns below
map_gerais ==
    [Total_Patrimonio_Liquido |-> "patrimonio_liquido",
     Patrimonio_Liquido |-> "patrimonio_liquido",
     Quantidade_Cotas_Emitidas |-> "cotas_emitidas"]

\* column names: those of the tables and three that no table holds
NomesColunas ==
    DOMAIN map_direto
    \cup {"Patrimonio_Liquido_Medio", "Valor_Patrim_Liq_Anterior", "Qtd_Cotas_Emitidas"}
ValoresColuna == {0, 50, 500}

\* "patrim" in kl and "liq" in kl
NomePatrimLiq(k) == k \in {"Patrimonio_Liquido_Medio", "Valor_Patrim_Liq_Anterior"}
\* "cota" in kl and "emitid" in kl and "cotist" not in kl
NomeCotaEmitid(k) == k = "Qtd_Cotas_Emitidas"
\* val > 100
CotasMinimas == 100

ComCampo(dados, campo, val) ==
    [f \in DOMAIN dados \cup {campo} |-> IF f = campo THEN val ELSE dados[f]]

\* the fuzzy branch without its "not in dados" tests
FuzzySobrescreve(dados, k, val) ==
    IF val = 0 THEN dados
    ELSE IF NomePatrimLiq(k) THEN ComCampo(dados, "patrimonio_liquido", val)
    ELSE IF NomeCotaEmitid(k) /\ val > CotasMinimas
         THEN ComCampo(dados, "cotas_emitidas", val)
    ELSE dados
\* the else branch of lines 2855-2868 (no column below has "cotist" in it)
Fuzzy(dados, k, val) ==
    IF val = 0 THEN dados
    ELSE IF "patrimonio_liquido" \notin DOMAIN dados /\ NomePatrimLiq(k)
         THEN ComCampo(dados, "patrimonio_liquido", val)
    ELSE IF "cotas_emitidas" \notin DOMAIN dados /\ NomeCotaEmitid(k) /\ val > CotasMinimas
         THEN ComCampo(dados, "cotas_emitidas", val)
    ELSE dados

\* one turn of "for k, v in row.items()" of _extrair_dados_gerais
PassoDireto(dados, col) ==
    IF col.nome \in DOMAIN map_direto
    THEN IF col.v # 0 /\ map_direto[col.nome] \notin DOMAIN dados
         THEN ComCampo(dados, map_direto[col.nome], col.v)
         ELSE dados
    ELSE Fuzzy(dados, col.nome, col.v)

\* one turn of "for k, v in row.items()" of _extrair_composicao, on gerais
PassoGerais(gerais, col) ==
    IF col.v # 0 /\ col.nome \in DOMAIN map_gerais /\ map_gerais[col.nome] \notin DOMAIN gerais
    THEN ComCampo(gerais, map_gerais[col.nome], col.v)
    ELSE gerais

\* for k, v in row.items()
RECURSIVE PercorreDireto(_, _)
PercorreDireto(dados, row) ==
    IF row = << >> THEN dados ELSE PercorreDireto(PassoDireto(dados, Head(row)), Tail(row))
RECURSIVE PercorreGerais(_, _)
PercorreGerais(gerais, row) ==
    IF row = << >> THEN gerais ELSE PercorreGerais(PassoGerais(gerais, Head(row)), Tail(row))

\* _extrair_dados_gerais(row) on the columns of the row
extrair_dados_gerais(row) ==
    LET dados == PercorreDireto(<< >>, row)
    IN  IF TemVp(dados) THEN ComVpCota(dados) ELSE dados

\* _extrair_composicao(row).get("gerais", {})
extrair_gerais(row) == PercorreGerais(<< >>, row)

NoNorm == [feito |-> FALSE, dados |-> << >>, gerais |-> << >>]

\* the row read from the table has one more column
NormColuna(nome, v) ==
    /\ Len(nrm_row) < MaxColunas
    /\ \A j \in 1..Len(nrm_row) : nrm_row[j].nome # nome
    /\ nrm_row' = Append(nrm_row, [nome |-> nome, v |-> v])
    /\ nrm_out' = NoNorm
    /\ nrm_ant' = NoNorm
    /\ UNCHANGED <<oldVars, alsVars, amtVars, repVars, lstVars, ofeVars>>

\* the two normalizers are applied to the row (2968, 2980)
Normalizar ==
    /\ nrm_ant' = nrm_out
    /\ nrm_out' = [feito |-> TRUE, dados |-> extrair_dados_gerais(nrm_row),
                   gerais |-> extrair_gerais(nrm_row)]
    /\ UNCHANGED <<nrm_row, oldVars, alsVars, amtVars, repVars, lstVars, ofeVars>>

(***************************************************************************)
(* The derived fields of the retained snapshots: the cumulative            *)
(* amortization and the adjusted book value.  src/main.py extracts         *)
(* amortizacao_pct_mes (line 2838) and vp_cota but holds no code that      *)
(* accumulates them; this part follows step 4 of section 4.6 of the        *)
(* specification.  Periods are in chronological order; the book value and  *)
(* the amortization value are in units of 0.01, the indicator in percent.  *)
(***************************************************************************)
MaxPeriodos == 3

VpCotaValues == {100, 200}
AmortPctValues == {0, 1, 5}
PeriodoInputs == [vp_cota : VpCotaValues, amortizacao_pct_mes : AmortPctValues,
                  retido : BOOLEAN]

\* the retained periods: the first, the last and those the selection kept
Retido(periodos, j) == j = 1 \/ j = Len(periodos) \/ periodos[j].retido

\* the absolute amount of one period counted only when the period is retained
ValorAmortizadoSeRetido(periodos, j) ==
    IF Retido(periodos, j) /\ periodos[j].amortizacao_pct_mes # 0
    THEN (periodos[j].amortizacao_pct_mes * periodos[j].vp_cota) \div 100
    ELSE 0
\* the absolute amount of one period: its percentage of its own book value
ValorAmortizado(periodos, j) ==
    IF periodos[j].amortizacao_pct_mes # 0
    THEN (periodos[j].amortizacao_pct_mes * periodos[j].vp_cota) \div 100
    ELSE 0

\* the snapshot of a retained period, given the amount accumulated up to it
Enriquecido(periodos, j, acum) ==
    [periodo |-> j,
     bookValuePerUnit |-> periodos[j].vp_cota,
     cumulativeAmortizationValue |-> acum,
     adjustedBookValuePerUnit |-> periodos[j].vp_cota + acum]

\* the timeline gets one more period
AmortPeriodo(p) ==
    /\ amt_pc = "idle"
    /\ Len(amt_periodos) < MaxPeriodos
    /\ amt_periodos' = Append(amt_periodos, p)
    /\ UNCHANGED <<amt_pc, amt_i, acumulado, amt_snaps, oldVars, alsVars, nrmVars, repVars,
                   lstVars, ofeVars>>

\* the walk starts
AmortInicio ==
    /\ amt_pc = "idle"
    /\ amt_periodos # << >>
    /\ amt_pc' = "walk"
    /\ amt_i' = 1
    /\ acumulado' = 0
    /\ amt_snaps' = << >>
    /\ UNCHANGED <<amt_periodos, oldVars, alsVars, nrmVars, repVars, lstVars, ofeVars>>

\* the walk takes the next period
AmortPasso ==
    /\ amt_pc = "walk"
    /\ LET acum == acumulado + ValorAmortizado(amt_periodos, amt_i)
       IN  /\ acumulado' = acum
           /\ amt_snaps' = IF Retido(amt_periodos, amt_i)
                           THEN Append(amt_snaps, Enriquecido(amt_periodos, amt_i, acum))
                           ELSE amt_snaps
    /\ amt_i' = amt_i + 1
    /\ amt_pc' = IF amt_i = Len(amt_periodos) THEN "done" ELSE "walk"
    /\ UNCHANGED <<amt_periodos, oldVars, alsVars, nrmVars, repVars, lstVars, ofeVars>>

(***************************************************************************)
(* The report queries cvm_informe_mensal and cvm_informe_trimestral over   *)
(* the archives their downloader returns.  An archive is a tagged error or *)
(* one table; a row holds whether _filtrar_por_cnpj attributes it to the   *)
(* entity, its competence date (0 for "") and whether it has a "_dt" key.  *)
(* The rows the downloader returns are the dicts held in its cache.        *)
(***************************************************************************)
MaxRepRows == 2

RepAnoAtual == 2025
RepAnos == {RepAnoAtual, RepAnoAtual - 1, RepAnoAtual - 2}
\* the ano parameter (0: not given) and the limite parameter
RepAnoParams == {0} \cup RepAnos
RepLimites == {1, 2}
RepOps == {"mensal", "trimestral"}
RepDts == {0, 1, 2}
RepRowInputs == [do_fundo : BOOLEAN, dt : RepDts, tem_dt : {FALSE}]

\* anos_tentar
anos_tentar(ano) ==
    IF ano # 0 THEN <<ano>> ELSE <<RepAnoAtual, RepAnoAtual - 1, RepAnoAtual - 2>>

\* the rows of the entity in a table, as indexes: _filtrar_por_cnpj(rows, cnpj)
Filtrado(rows) == {j \in 1..Len(rows) : rows[j].do_fundo}

\* filtrado.sort(key=_dt, reverse=True): the indexes by date, latest first,
\* rows of one date in their order in the table
RECURSIVE OrdenadoPorData(_, _)
OrdenadoPorData(rows, js) ==
    IF js = {} THEN << >>
    ELSE LET j == CHOOSE x \in js :
                     \A y \in js : \/ rows[x].dt > rows[y].dt
                                   \/ rows[x].dt = rows[y].dt /\ x <= y
         IN  <<j>> \o OrdenadoPorData(rows, js \ {j})

\* the number of distinct dates later than or equal to d among the rows js
PostoDaData(rows, js, d) == Cardinality({rows[j].dt : j \in {k \in js : rows[k].dt >= d}})

\* the rows kept for the answer, in answer order, by the monthly report:
\* filtrado[:limite]
RegistrosMensal(rows, limite) ==
    LET ord == OrdenadoPorData(rows, Filtrado(rows))
    IN  SubSeq(ord, 1, IF Len(ord) < limite THEN Len(ord) ELSE limite)

\* by the quarterly report: the rows of the limite latest non-empty dates (all
\* rows when no row has a date)
RegistrosTrimestral(rows, limite) ==
    LET js == Filtrado(rows)
        datadas == {j \in js : rows[j].dt # 0}
        ord == OrdenadoPorData(rows, js)
    IN  IF datadas = {} THEN ord
        ELSE SelectSeq(ord, LAMBDA j : /\ j \in datadas
                                        /\ PostoDaData(rows, datadas, rows[j].dt) <= limite)

Registros(op, rows, limite) ==
    IF op = "mensal" THEN RegistrosMensal(rows, limite)
    ELSE RegistrosTrimestral(rows, limite)

InSeq(x, s) == \E k \in 1..Len(s) : s[k] = x

\* the table after the query: row["_dt"] = ... on every row of filtrado, then
\* row.pop("_dt") on the rows kept for the answer
RowsAposConsulta(op, rows, limite) ==
    [j \in 1..Len(rows) |->
        IF j \in Filtrado(rows)
        THEN [rows[j] EXCEPT !.tem_dt = ~InSeq(j, Registros(op, rows, limite))]
        ELSE rows[j]]

\* tem_dados set for any table that has rows
tem_dados_sem_filtro(rows) == rows # << >>
\* tem_dados: some table of the year has a row of the entity
tem_dados(rows) == Filtrado(rows) # {}
\* "erro" not in csvs
AnoSemErro(arq) == ~arq.erro

NoRepRet == [tipo |-> None, ano |-> 0, registros |-> << >>, anos_tentados |-> << >>]
NoRepArgs == [op |-> None, ano |-> 0, limite |-> 0]

RepTotalRows == Len(rep_arq[RepAnoAtual].rows) + Len(rep_arq[RepAnoAtual - 1].rows)
                + Len(rep_arq[RepAnoAtual - 2].rows)

\* the archive of a year is one that cannot be fetched or parsed
RepErro(ano) ==
    /\ rep_pc = "idle"
    /\ ~rep_arq[ano].erro
    /\ rep_arq[ano].rows = << >>
    /\ rep_arq' = [rep_arq EXCEPT ![ano].erro = TRUE]
    /\ rep_parsed' = rep_parsed
    /\ UNCHANGED <<rep_pc, rep_args, rep_anos, rep_i, rep_log, rep_ret, oldVars, alsVars,
                   nrmVars, amtVars, lstVars, ofeVars>>

\* the archive of a year holds one more row
RepRow(ano, row) ==
    /\ rep_pc = "idle"
    /\ ~rep_arq[ano].erro
    /\ RepTotalRows < MaxRepRows
    /\ rep_arq' = [rep_arq EXCEPT ![ano].rows = Append(@, row)]
    /\ rep_parsed' = [rep_parsed EXCEPT ![ano] = Append(@, row)]
    /\ UNCHANGED <<rep_pc, rep_args, rep_anos, rep_i, rep_log, rep_ret, oldVars, alsVars,
                   nrmVars, amtVars, lstVars, ofeVars>>

\* cvm_informe_mensal / cvm_informe_trimestral is called for the entity
RepStart(op, ano, limite) ==
    /\ rep_pc \in {"idle", "done"}
    /\ rep_pc' = "loop"
    /\ rep_args' = [op |-> op, ano |-> ano, limite |-> limite]
    /\ rep_anos' = anos_tentar(ano)
    /\ rep_i' = 1
    /\ rep_log' = << >>
    /\ rep_ret' = NoRepRet
    /\ UNCHANGED <<rep_arq, rep_parsed, oldVars, alsVars, nrmVars, amtVars, lstVars, ofeVars>>

\* one turn of "for a in anos_tentar", and the return after the loop
RepAno ==
    /\ rep_pc = "loop"
    /\ LET a == rep_anos[rep_i]
           arq == rep_arq[a]
       IN  /\ rep_log' = Append(rep_log, a)
           /\ IF AnoSemErro(arq) /\ tem_dados(arq.rows)
              THEN /\ rep_arq' = [rep_arq EXCEPT ![a].rows =
                                     RowsAposConsulta(rep_args.op, arq.rows, rep_args.limite)]
                   /\ rep_ret' =
                         [tipo |-> "dados", ano |-> a,
                          registros |->
                             LET reg == Registros(rep_args.op, arq.rows, rep_args.limite)
                             IN  [k \in 1..Len(reg) |->
                                     [arq.rows[reg[k]] EXCEPT !.tem_dt = FALSE]],
                          anos_tentados |-> << >>]
                   /\ rep_pc' = "done"
                   /\ rep_i' = rep_i
              ELSE /\ rep_arq' = rep_arq
                   /\ IF rep_i = Len(rep_anos)
                      THEN /\ rep_ret' = [NoRepRet EXCEPT !.tipo = "nao_encontrado",
                                                          !.anos_tentados = rep_anos]
                           /\ rep_pc' = "done"
                           /\ rep_i' = rep_i
                      ELSE /\ rep_ret' = rep_ret
                           /\ rep_pc' = "loop"
                           /\ rep_i' = rep_i + 1
    /\ UNCHANGED <<rep_args, rep_anos, rep_parsed, oldVars, alsVars, nrmVars, amtVars, lstVars,
                   ofeVars>>

(***************************************************************************)
(* listar_documentos for a fund: the quick cache, the resolver's answer,   *)
(* the FNET search and the category filter.  What descobrir_dados_fii and  *)
(* buscar_fnet give is an input of the request.                            *)
(***************************************************************************)
LstTicker == "HGLG11"
LstMaxDocs == {20, 50}
\* the categoria parameter; None when not given
LstCategorias == {None, "relat", "fato"}

DocRelatorio == [id |-> 1, categoria |-> "Relatorios"]
DocFato == [id |-> 2, categoria |-> "Fato Relevante"]
\* what buscar_fnet returns
FnetDocs == {<< >>, <<DocRelatorio>>, <<DocRelatorio, DocFato>>}
\* what descobrir_dados_fii returns
LstDadosFii == [cnpj : {None, "11.728.688/0001-47"}, razao_social : {None, "CSHG LOGISTICA"}]

\* f"docs:{ticker}:{max_docs}"
cache_key(ticker, max_docs) ==
    IF max_docs = 20 THEN "docs:HGLG11:20" ELSE "docs:HGLG11:50"

\* categoria.lower() in d.get("categoria", "").lower()
CategoriaContem(categoria, d) ==
    \/ categoria = "relat" /\ d.categoria = "Relatorios"
    \/ categoria = "fato" /\ d.categoria = "Fato Relevante"

\* docs after "if categoria: docs = [d for d in docs if ...]"
FiltrarCategoria(docs, categoria) ==
    IF categoria = None THEN docs
    ELSE SelectSeq(docs, LAMBDA d : CategoriaContem(categoria, d))

\* erro_fnet: set when buscar_fnet returned nothing; it quotes the tax ID
\* and the legal name used, or that they were not found
SemAviso == [tem |-> FALSE, cnpj |-> None, razao_social |-> None]
erro_fnet(fnet_docs, dados_fii) ==
    IF fnet_docs # << >> THEN SemAviso
    ELSE [tem |-> TRUE,
          cnpj |-> IF dados_fii.cnpj = None THEN "nao encontrado" ELSE dados_fii.cnpj,
          razao_social |-> IF dados_fii.razao_social = None THEN "nao encontrada"
                           ELSE dados_fii.razao_social]

\* result
Listagem(dados_fii, fnet_docs, categoria) ==
    [cnpj |-> dados_fii.cnpj,
     razao_social |-> dados_fii.razao_social,
     documentos |-> FiltrarCategoria(fnet_docs, categoria),
     aviso |-> erro_fnet(fnet_docs, dados_fii)]

\* the result is stored whatever it holds
GuardaSempre(docs) == TRUE
\* if docs: cache_set(cache_key, result)
GuardaSeHaDocs(docs) == docs # << >>

\* if cached: return cached
LstHit(c, key, t) == key \in DOMAIN c /\ CacheFresh(c[key].ts, t)

NoLstReq == [max_docs |-> 0, categoria |-> None, do_cache |-> FALSE, fnet_docs |-> << >>,
             dados_fii |-> [cnpj |-> None, razao_social |-> None]]
NoLstRet == [cnpj |-> None, razao_social |-> None, documentos |-> << >>, aviso |-> SemAviso]

\* GET /api/documentos/{ticker}
Listar(max_docs, categoria, dados_fii, fnet_docs) ==
    LET key == cache_key(LstTicker, max_docs)
        hit == LstHit(_cache, key, now)
        res == Listagem(dados_fii, fnet_docs, categoria)
    IN  /\ lst_n < MaxListagens
        /\ lst_n' = lst_n + 1
        /\ IF hit
           THEN /\ lst_ret' = _cache[key].data
                /\ _cache' = _cache
                /\ lst_req' = [max_docs |-> max_docs, categoria |-> categoria,
                               do_cache |-> TRUE, fnet_docs |-> << >>,
                               dados_fii |-> NoLstReq.dados_fii]
                /\ lst_busca' = lst_busca
           ELSE /\ lst_ret' = res
                /\ _cache' = IF GuardaSeHaDocs(res.documentos)
                             THEN cache_set_after(cache_get_after(_cache, key, now), key, res,
                                                  now)
                             ELSE cache_get_after(_cache, key, now)
                /\ lst_req' = [max_docs |-> max_docs, categoria |-> categoria,
                               do_cache |-> FALSE, fnet_docs |-> fnet_docs,
                               dados_fii |-> dados_fii]
                /\ lst_busca' = IF GuardaSeHaDocs(res.documentos)
                                THEN [lst_busca EXCEPT ![key] = fnet_docs]
                                ELSE lst_busca
        /\ UNCHANGED <<lastSet, cacheOp, clockVars, archiveVars, fnetVars, resVars, tlVars,
                       snapVars, sumVars, bldVars, fltVars, alsVars, nrmVars, amtVars,
                       repVars, ofeVars>>

(***************************************************************************)
(* _baixar_ofertas_cvm: the downloader of the offerings archive, with the  *)
(* body of the yearly downloaders, one key and a TTL of six hours.         *)
(***************************************************************************)
CVM_OFERTAS_CACHE_TTL == 21600

\* _baixar_ofertas_cvm()
_baixar_ofertas_cvm(resp) ==
    LET key == "cvm_ofertas"
        r == baixar_zip(CVM_OFERTAS_CACHE, key, CVM_OFERTAS_CACHE_TTL, resp, now)
    IN  /\ CVM_OFERTAS_CACHE' = r.cache
        /\ fetchLog' = [fn |-> "_baixar_ofertas_cvm", kind |-> "ofertas", ano |-> 0,
                        resp |-> resp, ret |-> r.ret, downloaded |-> r.downloaded,
                        hadFresh |-> FALSE,
                        expired |-> key \in DOMAIN CVM_OFERTAS_CACHE
                                    /\ now - CVM_OFERTAS_CACHE[key].ts
                                          >= CVM_OFERTAS_CACHE_TTL,
                        staleTs |-> IF key \in DOMAIN CVM_OFERTAS_CACHE
                                    THEN CVM_OFERTAS_CACHE[key].ts ELSE -1,
                        key |-> key]
        /\ UNCHANGED <<CVM_CSV_CACHE, CVM_TRIM_CACHE, CVM_TRIMESTRAL_CACHE, CVM_ANUAL_CACHE,
                       okAt, cacheVars, clockVars, fnetVars, resVars, tlVars, snapVars,
                       sumVars, bldVars, fltVars, alsVars, nrmVars, amtVars, repVars,
                       lstVars>>

\* the clock moves between two calls of the offerings downloader
TickOfertas ==
    /\ ticks < MaxTicks
    /\ now' = now + (CVM_OFERTAS_CACHE_TTL - 1)
    /\ ticks' = ticks + 1
    /\ UNCHANGED <<cacheVars, archiveVars, fnetVars, resVars, tlVars, extVars>>

(***************************************************************************)
(* Specifications                                                          *)
(***************************************************************************)
vars == <<clockVars, cacheVars, archiveVars, fnetVars, resVars, tlVars, extVars>>

Init ==
    /\ now = 0
    /\ ticks = 0
    /\ _cache = << >>
    /\ lastSet = [k \in CacheKeys |-> NoSet]
    /\ cacheOp = NoCacheOp
    /\ CVM_CSV_CACHE = << >>
    /\ CVM_TRIM_CACHE = << >>
    /\ CVM_TRIMESTRAL_CACHE = << >>
    /\ CVM_ANUAL_CACHE = << >>
    /\ okAt = [p \in Kinds \X Anos |-> NeverOk]
    /\ fetchLog = NoFetch
    /\ fnet_pc = "idle"
    /\ fnet_args = [ticker |-> None, cnpj |-> << >>, max_docs |-> 0]
    /\ tentativas = << >>
    /\ fnet_i = 0
    /\ posts = << >>
    /\ fnet_ret = << >>
    /\ res_pc = "idle"
    /\ res_ticker = None
    /\ res_i = 0
    /\ result = EmptyResult
    /\ res_calls = << >>
    /\ res_last = NoResolution
    /\ tl_op = None
    /\ tl_pc = "idle"
    /\ tl_rows = << >>
    /\ todos_snapshots = << >>
    /\ pontos = << >>
    /\ snapshots = << >>
    /\ historico = << >>
    /\ snap_pc = "idle"
    /\ snap_rows = << >>
    /\ composicao = << >>
    /\ dados_gerais = << >>
    /\ sum_op = None
    /\ sum_in = [ini |-> SemValor, fim |-> SemValor]
    /\ sum_out = SemValor
    /\ bld_pc = "idle"
    /\ bld_op = None
    /\ bld_cnpj = None
    /\ bld_anos = << >>
    /\ futures = << >>
    /\ coletados = {}
    /\ csvs_por_ano = << >>
    /\ lidos = {}
    /\ bld_ret = NoReturn
    /\ flt_rows = << >>
    /\ flt_args = [cnpj |-> << >>, cnpjs_classe |-> << >>, feito |-> FALSE]
    /\ flt_ret = << >>
    /\ als_csvs = [n \in CsvNomes |-> << >>]
    /\ als_args = NoAliasArgs
    /\ als_classes = {}
    /\ atribuidas = [n \in CsvNomes |-> << >>]
    /\ nrm_row = << >>
    /\ nrm_out = NoNorm
    /\ nrm_ant = NoNorm
    /\ amt_periodos = << >>
    /\ amt_pc = "idle"
    /\ amt_i = 0
    /\ acumulado = 0
    /\ amt_snaps = << >>
    /\ rep_arq = [a \in RepAnos |-> [erro |-> FALSE, rows |-> << >>]]
    /\ rep_parsed = [a \in RepAnos |-> << >>]
    /\ rep_pc = "idle"
    /\ rep_args = NoRepArgs
    /\ rep_anos = << >>
    /\ rep_i = 0
    /\ rep_log = << >>
    /\ rep_ret = NoRepRet
    /\ lst_n = 0
    /\ lst_req = NoLstReq
    /\ lst_ret = NoLstRet
    /\ lst_busca = [k \in {cache_key(LstTicker, m) : m \in LstMaxDocs} |-> << >>]
    /\ CVM_OFERTAS_CACHE = << >>

NextCache ==
    \/ \E key \in CacheKeys, data \in CacheData : CacheSet(key, data)
    \/ \E key \in CacheKeys : CacheGet(key)
    \/ TickCache

NextArchive ==
    \/ \E ano \in Anos, resp \in Downloads : _baixar_csv_cvm_fii(ano, resp)
    \/ \E ano \in Anos, resp \in Downloads : _baixar_csv_cvm_fii_trimestral(ano, resp)
    \/ \E ano \in Anos, resp \in Downloads : _baixar_csv_cvm_fii_trimestral_explore(ano, resp)
    \/ \E ano \in Anos, resp \in Downloads : _baixar_csv_cvm_fii_anual(ano, resp)
    \/ TickArchive

\* the quick cache beside one archive cache: the two expiry policies together
NextExpiry ==
    \/ \E data \in CacheData : CacheSet("ind:HGLG11", data)
    \/ CacheGet("ind:HGLG11")
    \/ \E ano \in Anos, resp \in Downloads : _baixar_csv_cvm_fii(ano, resp)
    \/ TickCache
    \/ TickArchive

NextFnet ==
    \/ \E ticker \in FnetTickers, cnpj \in CnpjInputs, max_docs \in MaxDocsInputs :
          BuscarFnetStart(ticker, cnpj, max_docs)
    \/ \E resp \in FnetResponses : BuscarFnetPost(resp)
    \/ BuscarFnetVazio

NextResolve ==
    \/ \E ticker \in TickerInputs : DescobrirStart(ticker)
    \/ \E resp \in PageResponses : DescobrirSite(resp)
    \/ \E resp \in CvmResponses : DescobrirCvm(resp)

NextTimeline ==
    \/ \E op \in {"evolucao", "historico"} : TimelineStart(op)
    \/ \E dt \in DtInputs : EvolucaoRow([dt |-> dt, tem_vp |-> TRUE])
    \/ EvolucaoSelect
    \/ \E row \in RowInputs : HistoricoRow(row)
    \/ HistoricoDedupSort

NextSnapshot ==
    \/ SnapStart
    \/ \E row \in SnapRows : SnapMerge(row)
    \/ SnapPos

SpecSnapshot == Init /\ [][NextSnapshot]_vars
NextSummary ==
    \/ \E vp_inicio \in VpInputs, vp_fim \in VpInputs : ResumoEvolucao(vp_inicio, vp_fim)
    \/ \E primeiro \in VpInputs, ultimo \in VpInputs : ResumoHistorico(primeiro, ultimo)

SpecSummary == Init /\ [][NextSummary]_vars
NextBuild ==
    \/ \E op \in BuildOps, cnpj \in CnpjResolvidos, ano_inicio \in AnosInicio :
          BuildStart(op, cnpj, ano_inicio)
    \/ \E cnpj \in CnpjResolvidos : FnetRedirect(cnpj)
    \/ \E ano \in PrimeiroAno..AnoAtual, outcome \in FetchOutcomes : FetchDone(ano, outcome)
    \/ \E ano \in PrimeiroAno..AnoAtual : Coletar(ano)
    \/ SairDoWith
    \/ LerAno
    \/ Retornar

SpecBuild == Init /\ [][NextBuild]_vars
NextFilter ==
    \/ \E row \in FiltroRows : FiltroRow(row)
    \/ \E cnpj \in FiltroCnpjs, cnpjs_classe \in FiltroClasses : Filtrar(cnpj, cnpjs_classe)

SpecFilter == Init /\ [][NextFilter]_vars
NextAlias ==
    \/ \E n \in CsvNomes : \E row \in AliasRowInputs[n] : AliasRow(n, row)
    \/ \E cnpj \in AliasCnpjs, ticker \in AliasTickers : AliasEvolucao(cnpj, ticker)

SpecAlias == Init /\ [][NextAlias]_vars
NextNormalize ==
    \/ \E nome \in NomesColunas, v \in ValoresColuna : NormColuna(nome, v)
    \/ Normalizar

SpecNormalize == Init /\ [][NextNormalize]_vars
NextAmort ==
    \/ \E p \in PeriodoInputs : AmortPeriodo(p)
    \/ AmortInicio
    \/ AmortPasso

SpecAmort == Init /\ [][NextAmort]_vars
NextReport ==
    \/ \E ano \in RepAnos : RepErro(ano)
    \/ \E ano \in RepAnos, row \in RepRowInputs : RepRow(ano, row)
    \/ \E op \in RepOps, ano \in RepAnoParams, limite \in RepLimites : RepStart(op, ano, limite)
    \/ RepAno

SpecReport == Init /\ [][NextReport]_vars
NextListing ==
    \/ \E max_docs \in LstMaxDocs, categoria \in LstCategorias, dados_fii \in LstDadosFii,
          fnet_docs \in FnetDocs : Listar(max_docs, categoria, dados_fii, fnet_docs)
    \/ TickCache

SpecListing == Init /\ [][NextListing]_vars
\* the monthly downloader beside the offerings downloader
NextFetch ==
    \/ \E ano \in Anos, resp \in Downloads : _baixar_csv_cvm_fii(ano, resp)
    \/ \E resp \in Downloads : _baixar_ofertas_cvm(resp)
    \/ TickArchive
    \/ TickOfertas

SpecFetch == Init /\ [][NextFetch]_vars
SpecCache == Init /\ [][NextCache]_vars
SpecTimeline == Init /\ [][NextTimeline]_vars
SpecResolve == Init /\ [][NextResolve]_vars
SpecFnet == Init /\ [][NextFnet]_vars
SpecArchive == Init /\ [][NextArchive]_vars
SpecExpiry == Init /\ [][NextExpiry]_vars

(***************************************************************************)
(* Claims on the caches and the archive downloaders                        *)
(***************************************************************************)
\* the cache dict a downloader reads and writes
CacheOf(fn) ==
    CASE fn = "_baixar_csv_cvm_fii" -> CVM_CSV_CACHE
      [] fn = "_baixar_csv_cvm_fii_trimestral" -> CVM_TRIM_CACHE
      [] fn = "_baixar_csv_cvm_fii_trimestral_explore" -> CVM_TRIMESTRAL_CACHE
      [] fn = "_baixar_csv_cvm_fii_anual" -> CVM_ANUAL_CACHE

\* C6: an archive fetch always returns a value, and the value carries the key
\* "erro" exactly when the download failed, the body was below the size floor
\* or the body was no readable ZIP; a parsed bundle gives the map from each
\* ".csv" member to its rows, and a cache hit gives an archive.
C6_FetchTagsEveryFailure ==
    fetchLog.fn # None =>
        LET ret == fetchLog.ret
            resp == fetchLog.resp
        IN  IF ~fetchLog.downloaded
            THEN "erro" \notin DOMAIN ret
            ELSE IF RespParses(resp)
            THEN /\ "erro" \notin DOMAIN ret
                 /\ DOMAIN ret = DOMAIN resp.members \cap CsvEntries
                 /\ \A n \in DOMAIN ret : ret[n] = resp.members[n]
            ELSE DOMAIN ret = {"erro"}

\* C6 witness: a 200 answer whose readable body is below the floor came back
\* as a tagged error from the annual downloader.
C6_Witness ==
    /\ fetchLog.fn = "_baixar_csv_cvm_fii_anual"
    /\ fetchLog.downloaded
    /\ fetchLog.resp.status = 200
    /\ fetchLog.resp.readable
    /\ fetchLog.resp.size < MinZipBytes
    /\ "erro" \in DOMAIN fetchLog.ret

\* C7 (as claimed): once any downloader has parsed a non-empty archive of a
\* kind and year, no later fetch of that kind and year made before the TTL has
\* elapsed downloads again, whichever downloader makes it.
C7_CachedByKindAndYear ==
    (fetchLog.fn # None /\ fetchLog.hadFresh) => ~fetchLog.downloaded

\* C8: cache_get(key) returns the data of the most recent cache_set(key, data)
\* when less than CACHE_TTL seconds have passed since that set, and None when
\* the key was never set or CACHE_TTL seconds or more have passed.
C8_GetReturnsLastSetWithinTtl ==
    cacheOp.op = "get" =>
        LET last == lastSet[cacheOp.key]
        IN  cacheOp.ret = IF last.set /\ cacheOp.at - last.ts < CACHE_TTL
                          THEN last.data
                          ELSE None

\* C8 witness: a get made exactly CACHE_TTL seconds after the set of its key
\* reported absent.
C8_Witness ==
    /\ cacheOp.op = "get"
    /\ lastSet[cacheOp.key].set
    /\ cacheOp.at - lastSet[cacheOp.key].ts = CACHE_TTL
    /\ cacheOp.ret = None

\* the entry a downloader call found expired is still stored after the call
StaleEntryKept ==
    /\ fetchLog.key \in DOMAIN CacheOf(fetchLog.fn)
    /\ CacheOf(fetchLog.fn)[fetchLog.key].ts = fetchLog.staleTs

\* C9 (as claimed): in the quick cache and in the archive caches alike, a read
\* that finds an entry of age >= TTL removes that entry.
C9_ExpiredReadRemovesEverywhere ==
    /\ (cacheOp.op = "get" /\ cacheOp.expired) => cacheOp.key \notin DOMAIN _cache
    /\ (fetchLog.fn # None /\ fetchLog.expired) => ~StaleEntryKept

\* C9 (amended): cache_get removes the expired entry it finds; a downloader
\* leaves the expired entry it finds in its archive cache, where it stays
\* until a download that parses with at least one table overwrites it.
C9_ExpiredReadRemovesInQuickCacheOnly ==
    /\ (cacheOp.op = "get" /\ cacheOp.expired) => cacheOp.key \notin DOMAIN _cache
    /\ (fetchLog.fn # None /\ fetchLog.expired) =>
           /\ fetchLog.downloaded
           /\ fetchLog.key \in DOMAIN CacheOf(fetchLog.fn)
           /\ IF RespParses(fetchLog.resp)
                  /\ DOMAIN fetchLog.resp.members \cap CsvEntries # {}
               THEN /\ CacheOf(fetchLog.fn)[fetchLog.key].ts > fetchLog.staleTs
                    /\ CacheOf(fetchLog.fn)[fetchLog.key].data = fetchLog.ret
               ELSE StaleEntryKept

\* C9 witness: a cache_get found its key expired and the key is gone.
C9_Witness ==
    /\ cacheOp.op = "get"
    /\ cacheOp.expired
    /\ lastSet[cacheOp.key].set
    /\ cacheOp.key \notin DOMAIN _cache

(***************************************************************************)
(* Claims on buscar_fnet                                                   *)
(***************************************************************************)
\* the answer is OK, parses as JSON and holds at least one result row
HasRows(resp) == resp.kind = "http" /\ resp.ok /\ resp.json /\ Len(resp.data) >= 1

\* the labels of the variants buscar_fnet declares for a cnpj, in order
DeclaredLabels(cnpj) ==
    IF cnpj = << >> THEN <<"Ticker">>
    ELSE IF \A j \in 1..Len(cnpj) : cnpj[j] < 0 \/ cnpj[j] > 9 THEN <<"CNPJ formatado", "Ticker">>
    ELSE <<"CNPJ sem formatacao", "CNPJ formatado", "CNPJ limpo + ticker", "Ticker",
           "CNPJ limpo sem tipo">>

\* C1: the variants are POSTed one at a time in their declared order; no POST
\* follows an answer that is OK, JSON and non-empty; and when the last POST got
\* such an answer the call has returned a non-empty list whose every document
\* carries that variant's label.
C1_StopsAtFirstVariantWithRows ==
    LET n == Len(posts)
        labels == DeclaredLabels(fnet_args.cnpj)
    IN  /\ n <= Len(labels)
        /\ \A j \in 1..n : posts[j].nome = labels[j]
        /\ \A j \in 1..(n - 1) : ~HasRows(posts[j].resp)
        /\ (n >= 1 /\ HasRows(posts[n].resp)) =>
              /\ fnet_pc = "done"
              /\ fnet_ret # << >>
              /\ Len(fnet_ret) <= fnet_args.max_docs
              /\ \A d \in 1..Len(fnet_ret) :
                    /\ fnet_ret[d].estrategia_usada = labels[n]
                    /\ fnet_ret[d].id = posts[n].resp.data[d]

\* C1 witness: variant 3 of 5 was the first to return a row, and the call
\* returned after exactly three POSTs with documents tagged by variant 3.
C1_Witness ==
    /\ fnet_pc = "done"
    /\ Len(tentativas) = 5
    /\ Len(posts) = 3
    /\ HasRows(posts[3].resp)
    /\ fnet_ret # << >>
    /\ fnet_ret[1].estrategia_usada = "CNPJ limpo + ticker"

\* C5: a call in which no POST got an OK, JSON, non-empty answer returns the
\* empty list after trying every declared variant exactly once, in order.
C5_EmptyListAfterEveryVariant ==
    (fnet_pc = "done" /\ \A j \in 1..Len(posts) : ~HasRows(posts[j].resp)) =>
        /\ fnet_ret = << >>
        /\ Len(posts) = Len(DeclaredLabels(fnet_args.cnpj))
        /\ \A j \in 1..Len(posts) : posts[j].nome = DeclaredLabels(fnet_args.cnpj)[j]

\* C5 witness: five variants failed in four different ways (exception, error
\* status, non-JSON body, zero rows) and the call returned the empty list.
C5_Witness ==
    /\ fnet_pc = "done"
    /\ Len(posts) = 5
    /\ fnet_ret = << >>
    /\ posts[1].resp.kind = "neterr"
    /\ ~posts[2].resp.ok /\ posts[2].resp.kind = "http"
    /\ posts[3].resp.ok /\ ~posts[3].resp.json
    /\ posts[4].resp.json /\ posts[4].resp.ok /\ posts[4].resp.data = << >>

(***************************************************************************)
(* Claims on descobrir_dados_fii                                           *)
(***************************************************************************)
\* C2: a call for a symbol of FII_CNPJ_DB returns the directory's tax ID
\* without any GET; no GET follows a GET that yielded a tax ID; and the GET of
\* cad_fi.csv comes only after the three pages were fetched in vain.
C2_TiersInOrderDirectoryFirst ==
    res_pc # "idle" =>
        LET t == UpperStrip[res_ticker]
            n == Len(res_calls)
        IN  /\ t \in DOMAIN FII_CNPJ_DB =>
                  /\ res_pc = "done"
                  /\ res_calls = << >>
                  /\ result = [EmptyResult EXCEPT !.cnpj = FII_CNPJ_DB[t]]
            /\ \A j \in 1..(n - 1) : ~res_calls[j].found
            /\ \A j \in 1..n :
                  res_calls[j].tier = IF j <= NumSites THEN 2 ELSE 3
            /\ n <= NumSites + 1
            /\ (n >= 1 /\ res_calls[n].found) => res_pc = "done"

\* C2 witness: a directory symbol given in lower case with blanks was
\* resolved from the directory with no GET.
C2_Witness ==
    /\ res_pc = "done"
    /\ res_ticker = " abcp11 "
    /\ res_calls = << >>
    /\ result.cnpj = "01.201.140/0001-90"

C4_ExhaustedTiersGiveNullEntity ==
    (/\ res_pc = "done"
     /\ UpperStrip[res_ticker] \notin DOMAIN FII_CNPJ_DB
     /\ \A j \in 1..Len(res_calls) : ~res_calls[j].found) =>
        /\ Len(res_calls) = NumSites + 1
        /\ result.cnpj = None
        /\ result.razao_social = None

\* C4 witness: a failed page, two pages without a pattern and a cad_fi.csv
\* that downloaded but had no usable row left the result null.
C4_Witness ==
    /\ res_pc = "done"
    /\ Len(res_calls) = NumSites + 1
    /\ res_calls[1].fail
    /\ ~res_calls[2].fail
    /\ ~res_calls[NumSites + 1].fail
    /\ \A j \in 1..Len(res_calls) : ~res_calls[j].found
    /\ result = EmptyResult

(***************************************************************************)
(* Claims on the timelines                                                 *)
(***************************************************************************)
\* C10: in the snapshots list the periodo of each entry is smaller than the
\* periodo of the next, and in the historico list the data of each entry is
\* smaller than the data of the next, so no key appears twice.
C10_TimelineKeysStrictlyIncreasing ==
    /\ \A j \in 1..(Len(snapshots) - 1) :
          StrLess(snapshots[j].periodo, snapshots[j + 1].periodo)
    /\ \A j \in 1..(Len(historico) - 1) :
          StrLess(historico[j].data, historico[j + 1].data)

\* C10 witness: three rows whose first periodo is a December ("2020-12",
\* also the December of its year) gave two snapshots, 2020-12 then 2021-12.
C10_Witness ==
    /\ tl_op = "evolucao"
    /\ tl_pc = "done"
    /\ Len(tl_rows) = 3
    /\ Len(snapshots) = 2
    /\ snapshots[1].periodo = <<2, 0, 2, 0, -3, 1, 2>>
    /\ snapshots[2].periodo = <<2, 0, 2, 1, -3, 1, 2>>
    /\ snapshots[2].data = <<2, 0, 2, 1, -3, 1, 2>>

\* the largest and the smallest str of a non-empty set
MaxStr(S) == CHOOSE x \in S : \A y \in S \ {x} : StrLess(y, x)
MinStr(S) == CHOOSE x \in S : \A y \in S \ {x} : StrLess(x, y)

\* the periods the selection rule names, for the set P of periods present:
\* the earliest, the latest, and per year the December if present, else the
\* latest of that year
PeriodosEsperados(P) ==
    {MinStr(P), MaxStr(P)} \cup
    {LET y == Slice(p, AnoLen)
         dez == y \o <<-3, 1, 2>>
     IN  IF dez \in P THEN dez
         ELSE MaxStr({q \in P : Slice(q, AnoLen) = y}) : p \in P}

\* C11: the periods of the snapshots list are exactly the earliest period, the
\* latest period and, for every year present, its December if that period
\* exists, else the latest period of that year.
C11_RetainedPeriodsAreFirstLastAndYearEnds ==
    (tl_op = "evolucao" /\ tl_pc = "done" /\ DOMAIN todos_snapshots # {}) =>
        {snapshots[j].periodo : j \in 1..Len(snapshots)} =
            PeriodosEsperados(DOMAIN todos_snapshots)

\* C11 witness: of the periods 2020-11, 2021-03 and 2021-06 (no December in
\* either year) the first and the last were retained and 2021-03 was dropped.
C11_Witness ==
    /\ tl_op = "evolucao"
    /\ tl_pc = "done"
    /\ DOMAIN todos_snapshots = {<<2, 0, 2, 0, -3, 1, 1>>, <<2, 0, 2, 1, -3, 0, 3>>,
                                 <<2, 0, 2, 1, -3, 0, 6>>}
    /\ Len(snapshots) = 2
    /\ snapshots[2].periodo = <<2, 0, 2, 1, -3, 0, 6>>

(***************************************************************************)
(* Claims on one period's snapshot                                         *)
(***************************************************************************)
\* C12: in a finished snapshot vp_cota is present exactly when
\* patrimonio_liquido and cotas_emitidas are both present with
\* cotas_emitidas > 0, and then it is round(patrimonio_liquido /
\* cotas_emitidas, 4) of that snapshot and not zero.
C12_BookValueMatchesItsSnapshot ==
    snap_pc = "done" =>
        LET dg == dados_gerais
            ambos == /\ "patrimonio_liquido" \in DOMAIN dg
                     /\ "cotas_emitidas" \in DOMAIN dg
                     /\ dg["cotas_emitidas"] > 0
        IN  /\ ("vp_cota" \in DOMAIN dg) <=> ambos
            /\ ("vp_cota" \in DOMAIN dg /\ ambos) =>
                  /\ dg["vp_cota"] = Round4(dg["patrimonio_liquido"], dg["cotas_emitidas"])
                  /\ dg["vp_cota"] # 0

\* the value row gives for field f (0: none), and the rows that supply f
ValorDe(row, f) == IF f = "patrimonio_liquido" THEN row.pl ELSE row.cotas
Fornecedores(rows, f) == {j \in 1..Len(rows) : ValorDe(rows[j], f) # 0}

\* each key (with its value) of dict a is in dict b
Preservado(a, b) == \A k \in DOMAIN a : k \in DOMAIN b /\ b[k] = a[k]

VariacaoCerta(x, ini, fim) ==
    LET erro == x * ini - (fim - ini) * 10000
    IN  2 * erro <= ini /\ -2 * erro <= ini

\* C14 (as claimed): the variation is reported exactly when both book values
\* are defined and the first is not zero, and then it is
\* (last - first) / first * 100.
C14_VariationWheneverFirstIsNonZero ==
    sum_op # None =>
        /\ sum_out.tem <=> (sum_in.ini.tem /\ sum_in.fim.tem /\ sum_in.ini.v # 0)
        /\ sum_out.tem => sum_out.v = VariacaoPct(sum_in.ini.v, sum_in.fim.v)

\* C14 (amended): the variation is reported exactly when both book values are
\* defined and the first is greater than zero (and, in the composition
\* builder, the last is not zero); then it is (last - first) / first * 100
\* rounded to 2 decimals, 15 for 100 and 115; in every other case it is
\* omitted.
C14_VariationWheneverFirstIsPositive ==
    sum_op # None =>
        /\ sum_out.tem <=>
               /\ sum_in.ini.tem /\ sum_in.fim.tem /\ sum_in.ini.v > 0
               /\ sum_op = "evolucao" => sum_in.fim.v # 0
        /\ sum_out.tem => VariacaoCerta(sum_out.v, sum_in.ini.v, sum_in.fim.v)
        /\ (sum_out.tem /\ sum_in.ini.v = 10000 /\ sum_in.fim.v = 11500) =>
               sum_out.v = 1500

\* C14 witness: the composition builder, given 100 and 115, reported 15.
C14_Witness ==
    /\ sum_op = "evolucao"
    /\ sum_in.ini = Valor(10000)
    /\ sum_in.fim = Valor(11500)
    /\ sum_out = Valor(1500)

(***************************************************************************)
(* Claims on the range-based operations                                    *)
(***************************************************************************)
\* cvm_evolucao_patrimonial has returned, for a resolved entity and a range
\* with at least one year, and no year gave a row of the entity
EvolucaoSemLinhas ==
    /\ bld_op = "evolucao"
    /\ bld_pc = "done"
    /\ bld_cnpj # None
    /\ bld_anos # << >>
    /\ \A a \in DOMAIN futures : futures[a] # "ok_rows"

C16_RangeOperationsNeverRaise ==
    bld_pc # "raised"

\* C17: an operation given an entity whose cnpj is None returns an explicit
\* error result, does not raise and submits no archive download.
C17_UnresolvedEntityIsCheckedFirst ==
    (bld_op # None /\ bld_cnpj = None) =>
        /\ bld_pc = "done"
        /\ bld_ret.tipo = "erro"
        /\ DOMAIN futures = {}

\* C18: while a download submitted by the operation is still running no year
\* has been read and nothing has been returned, and no step reads a year
\* while a download is running.
C18_RowsAreReadAfterAllFetches ==
    /\ []((\E a \in DOMAIN futures : futures[a] = "running") =>
            (lidos = {} /\ bld_ret = NoReturn /\ bld_pc = "fetch"))
    /\ [][lidos' # lidos => \A a \in DOMAIN futures : futures[a] # "running"]_vars

\* C18 witness: the second of two years is being read after the download of
\* the first had failed and was collected last.
C18_Witness ==
    /\ bld_op = "evolucao"
    /\ bld_pc = "read"
    /\ Len(bld_anos) = 2
    /\ futures[bld_anos[1]] = "erro"
    /\ futures[bld_anos[2]] = "ok_rows"
    /\ lidos = {bld_anos[2]}

\* C19: once the downloads are over every year submitted has an outcome,
\* csvs_por_ano holds exactly the years whose download did not fail, and the
\* years read at the return are exactly those, whatever the order in which
\* the downloads finished and were collected.
C19_FailedYearLeavesSiblingsAlone ==
    (bld_pc \in {"read", "done"} /\ DOMAIN futures # {}) =>
        /\ DOMAIN futures = SeqToSet(bld_anos)
        /\ \A a \in DOMAIN futures : futures[a] \in FetchOutcomes
        /\ DOMAIN csvs_por_ano = {a \in DOMAIN futures : futures[a] # "erro"}
        /\ \A a \in DOMAIN csvs_por_ano : csvs_por_ano[a] = futures[a]
        /\ bld_pc = "done" => lidos = DOMAIN csvs_por_ano

\* C19 witness: cvm_historico_vp returned after the first year succeeded and
\* the second failed.
C19_Witness ==
    /\ bld_op = "historico"
    /\ bld_pc = "done"
    /\ Len(bld_anos) = 2
    /\ futures[bld_anos[1]] = "ok_rows"
    /\ futures[bld_anos[2]] = "erro"
    /\ DOMAIN csvs_por_ano = {bld_anos[1]}
    /\ bld_ret.tipo = "timeline"

(***************************************************************************)
(* Claims on _filtrar_por_cnpj                                             *)
(***************************************************************************)
\* C20: the filter gives the same rows for the punctuated and for the
\* digits-only form of the tax ID, what it returned is that list, and a row
\* whose cnpj column holds either form of the tax ID is selected.
C20_FilterComparesDigitsOnly ==
    flt_args.feito =>
        LET rp == filtrar_por_cnpj(flt_rows, CnpjPontuado, flt_args.cnpjs_classe)
            rd == filtrar_por_cnpj(flt_rows, CnpjSoDigitos, flt_args.cnpjs_classe)
        IN  /\ rp = rd
            /\ flt_args.cnpj \in {CnpjPontuado, CnpjSoDigitos} =>
                  /\ flt_ret = rp
                  /\ \A j \in 1..Len(flt_rows) :
                        (/\ flt_rows[j][1].tem_cnpj
                         /\ flt_rows[j][1].val \in {CnpjPontuado, CnpjSoDigitos}) =>
                            \E k \in 1..Len(flt_ret) : flt_ret[k] = flt_rows[j]

\* C20 witness: filtering by the digits-only form kept a row holding the
\* punctuated form and dropped a row of another fund.
C20_Witness ==
    /\ flt_args.feito
    /\ flt_args.cnpj = CnpjSoDigitos
    /\ flt_args.cnpjs_classe = << >>
    /\ Len(flt_rows) = 2
    /\ flt_rows[1] = <<[tem_cnpj |-> TRUE, val |-> OutroCnpj]>>
    /\ flt_rows[2] = <<[tem_cnpj |-> TRUE, val |-> CnpjPontuado]>>
    /\ flt_ret = <<flt_rows[2]>>

(***************************************************************************)
(* Further claims on descobrir_dados_fii                                   *)
(***************************************************************************)
\* the GETs of tier 2 of the running call that matched a tax-ID pattern
PaginasComCnpj == {j \in 1..Len(res_calls) : res_calls[j].tier = 2 /\ res_calls[j].found}

\* C30: when a page of tier 2 matched a tax-ID pattern, the cnpj returned is
\* the one of the first such page, also when the name extraction of that page
\* raised; no GET follows that page.
C30_FirstPageTaxIdIsFinal ==
    (res_pc = "done" /\ PaginasComCnpj # {}) =>
        LET j == CHOOSE x \in PaginasComCnpj : \A y \in PaginasComCnpj : x <= y
        IN  /\ result.cnpj = res_calls[j].cnpj
            /\ Len(res_calls) = j

(***************************************************************************)
(* Claims on the attribution of rows by the timeline builder               *)
(***************************************************************************)
\* the rows of a table whose tax-ID column holds one of the given tax IDs
LinhasDe(n, ids) ==
    {j \in 1..Len(als_csvs[n]) :
        \E i \in 1..Len(ColunasDoCsv[n]) :
            /\ NomeTemCnpj(ColunasDoCsv[n][i])
            /\ SoDigitos(als_csvs[n][j][ColunasDoCsv[n][i]]) \in ids}

\* C21: every row whose tax-ID column holds the entity's tax ID or one of
\* its class tax IDs (as _descobrir_cnpj_classe finds them) is among the rows
\* the timeline builder attributes to the entity.
C21_ClassAliasRowsAreAttributed ==
    als_args.feito =>
        \A n \in CsvNomes : \A j \in LinhasDe(n, als_classes) :
            \E k \in 1..Len(atribuidas[n]) :
                atribuidas[n][k] = ItensDe(ColunasDoCsv[n], als_csvs[n][j])

(***************************************************************************)
(* Claims on the normalizers                                               *)
(***************************************************************************)
CamposNorm == {"patrimonio_liquido", "cotas_emitidas"}

\* the columns of the row that the exact table gives to a field, with a value
Exatas(f) ==
    {j \in 1..Len(nrm_row) : /\ nrm_row[j].nome \in DOMAIN map_direto
                             /\ map_direto[nrm_row[j].nome] = f
                             /\ nrm_row[j].v # 0}
\* the columns of the row that satisfy the heuristic rule of a field
Heuristicas(f) ==
    {j \in 1..Len(nrm_row) :
        /\ nrm_row[j].nome \notin DOMAIN map_direto
        /\ nrm_row[j].v # 0
        /\ IF f = "patrimonio_liquido" THEN NomePatrimLiq(nrm_row[j].nome)
           ELSE NomeCotaEmitid(nrm_row[j].nome) /\ nrm_row[j].v > CotasMinimas}
\* the columns of the row that map_gerais gives to a field, with a value
ExatasGerais(f) ==
    {j \in 1..Len(nrm_row) : /\ nrm_row[j].nome \in DOMAIN map_gerais
                             /\ map_gerais[nrm_row[j].nome] = f
                             /\ nrm_row[j].v # 0}
Primeira(js) == CHOOSE j \in js : \A k \in js : j <= k

\* C22: a field for which the row has a column of the exact table takes the
\* value of the first such column, wherever the row's heuristic columns are.
C22_ExactColumnBeatsHeuristic ==
    nrm_out.feito =>
        \A f \in CamposNorm :
            Exatas(f) # {} =>
                /\ f \in DOMAIN nrm_out.dados
                /\ nrm_out.dados[f] = nrm_row[Primeira(Exatas(f))].v

RECURSIVE SomaAmortizada(_)
SomaAmortizada(j) ==
    IF j = 0 THEN 0
    ELSE SomaAmortizada(j - 1)
         + (amt_periodos[j].amortizacao_pct_mes * amt_periodos[j].vp_cota) \div 100

C25_CachedRowsAreNeverMutated ==
    \A a \in RepAnos : rep_arq[a].rows = rep_parsed[a]

\* the positions in anos_tentar of the years that have rows for the entity
AnosComDados ==
    {i \in 1..Len(rep_anos) :
        /\ ~rep_arq[rep_anos[i]].erro
        /\ \E j \in 1..Len(rep_parsed[rep_anos[i]]) : rep_parsed[rep_anos[i]][j].do_fundo}

\* C26: the years are fetched in the order of the fallback sequence, up to
\* and including the first one whose archive has a row for the entity; the
\* answer is built from that year's rows of the entity; when no year has
\* one, every year was fetched and the not-found answer lists them.
C26_FirstYearWithRowsAnswers ==
    rep_pc = "done" =>
        IF AnosComDados # {}
        THEN LET i == CHOOSE x \in AnosComDados : \A y \in AnosComDados : x <= y
             IN  /\ rep_ret.tipo = "dados"
                 /\ rep_ret.ano = rep_anos[i]
                 /\ rep_log = SubSeq(rep_anos, 1, i)
                 /\ rep_ret.registros # << >>
                 /\ \A k \in 1..Len(rep_ret.registros) :
                       /\ rep_ret.registros[k].do_fundo
                       /\ \E j \in 1..Len(rep_parsed[rep_anos[i]]) :
                             rep_parsed[rep_anos[i]][j] = rep_ret.registros[k]
        ELSE /\ rep_ret.tipo = "nao_encontrado"
             /\ rep_ret.anos_tentados = rep_anos
             /\ rep_log = rep_anos

\* C26 witness: no year was asked for, the archive of the current year gave
\* an error, the one before has rows of other entities only, and the answer
\* came from the third.
C26_Witness ==
    /\ rep_pc = "done"
    /\ rep_args.ano = 0
    /\ rep_arq[RepAnoAtual].erro
    /\ ~rep_arq[RepAnoAtual - 1].erro
    /\ Len(rep_arq[RepAnoAtual - 1].rows) = 1
    /\ ~rep_arq[RepAnoAtual - 1].rows[1].do_fundo
    /\ rep_ret.tipo = "dados"
    /\ rep_ret.ano = RepAnoAtual - 2
    /\ rep_log = <<RepAnoAtual, RepAnoAtual - 1, RepAnoAtual - 2>>

(***************************************************************************)
(* Claims on listar_documentos                                             *)
(***************************************************************************)
\* C27: a request whose search found no document answers with an aviso that
\* quotes the tax ID and the legal name used (or that they were not found);
\* one whose search found documents, or that is served from the cache,
\* answers with no aviso; and no cache entry holds an empty listing.
C27_EmptySearchExplainsAndIsNotCached ==
    /\ \A key \in DOMAIN _cache : _cache[key].data.documentos # << >>
    /\ lst_n > 0 =>
          IF ~lst_req.do_cache /\ lst_req.fnet_docs = << >>
          THEN /\ lst_ret.aviso.tem
               /\ lst_ret.documentos = << >>
               /\ lst_ret.aviso.cnpj = IF lst_req.dados_fii.cnpj = None THEN "nao encontrado"
                                       ELSE lst_req.dados_fii.cnpj
               /\ lst_ret.aviso.razao_social
                     = IF lst_req.dados_fii.razao_social = None THEN "nao encontrada"
                       ELSE lst_req.dados_fii.razao_social
          ELSE ~lst_ret.aviso.tem

\* C27 witness: a search with a known tax ID and no legal name found nothing
\* while the cache held an earlier listing under the other key, and the
\* cache was left as it was.
C27_Witness ==
    /\ lst_n = 2
    /\ ~lst_req.do_cache
    /\ lst_req.fnet_docs = << >>
    /\ lst_req.max_docs = 20
    /\ lst_req.dados_fii = [cnpj |-> "11.728.688/0001-47", razao_social |-> None]
    /\ lst_ret.aviso = [tem |-> TRUE, cnpj |-> "11.728.688/0001-47",
                        razao_social |-> "nao encontrada"]
    /\ DOMAIN _cache = {"docs:HGLG11:50"}

\* C28: the documents of an answer are those of the request's own category;
\* an answer to a request without category, when served from the cache, is
\* the whole list the search behind the cached entry had found.
C28_AnswerFollowsOwnCategory ==
    lst_n > 0 =>
        /\ lst_req.categoria # None =>
              \A k \in 1..Len(lst_ret.documentos) :
                  CategoriaContem(lst_req.categoria, lst_ret.documentos[k])
        /\ (lst_req.categoria = None /\ lst_req.do_cache) =>
              lst_ret.documentos = lst_busca[cache_key(LstTicker, lst_req.max_docs)]

(***************************************************************************)
(* Further claims on the archive downloaders                               *)
(***************************************************************************)
\* the cache dict of the downloader of the last fetch
CacheDoFetch ==
    IF fetchLog.fn = "_baixar_ofertas_cvm" THEN CVM_OFERTAS_CACHE ELSE CVM_CSV_CACHE

\* the download of a fetch failed, or parsed with no ".csv" member
SemArquivo(log) ==
    /\ log.fn # None
    /\ log.downloaded
    /\ \/ ~RespParses(log.resp)
       \/ DOMAIN log.resp.members \cap CsvEntries = {}

\* C29: a fetch whose download fails or parses with no table leaves the
\* archive caches as they were; a fetch that found an entry of age >= TTL
\* downloaded, and a fetch that did not download returned an entry younger
\* than the TTL.
C29_FailedFetchKeepsCacheAndExpiredIsNotServed ==
    /\ [][SemArquivo(fetchLog') =>
              /\ CVM_CSV_CACHE' = CVM_CSV_CACHE
              /\ CVM_OFERTAS_CACHE' = CVM_OFERTAS_CACHE]_vars
    /\ [](fetchLog.fn # None =>
              /\ fetchLog.expired => fetchLog.downloaded
              /\ ~fetchLog.downloaded =>
                    /\ fetchLog.staleTs >= 0
                    /\ ~fetchLog.expired
                    /\ fetchLog.key \in DOMAIN CacheDoFetch
                    /\ fetchLog.ret = CacheDoFetch[fetchLog.key].data)

\* C29 witness: the offerings downloader found its entry expired, the
\* download failed, the error came back and the expired entry is still
\* stored.
C29_Witness ==
    /\ fetchLog.fn = "_baixar_ofertas_cvm"
    /\ fetchLog.expired
    /\ fetchLog.downloaded
    /\ "erro" \in DOMAIN fetchLog.ret
    /\ "cvm_ofertas" \in DOMAIN CVM_OFERTAS_CACHE
    /\ CVM_OFERTAS_CACHE["cvm_ofertas"].ts = fetchLog.staleTs

====
